---- MODULE Spec2Model ----
(***************************************************************************)
(* Safety validation engine of cmdai: SafetyConfig, SafetyValidator::new,  *)
(* validate_command, validate_batch, the builtin pattern catalogue and the *)
(* quote-context matcher.                                                  *)
(*                                                                         *)
(* A command is a sequence of characters (one-character strings).  A regex *)
(* is kept as its syntax tree; the source text of every builtin pattern is *)
(* quoted above its tree.  Matching follows the regex crate: leftmost      *)
(* start, alternatives and greedy repetitions tried in priority order,     *)
(* find_iter yielding successive non-overlapping matches.                  *)
(***************************************************************************)
EXTENDS Integers, Sequences, FiniteSets, TLC

\* ------------------------------------------------------------------ chars
Lower == {"a", "b", "c", "d", "e", "f", "g", "h", "i", "j", "k", "l", "m",
          "n", "o", "p", "q", "r", "s", "t", "u", "v", "w", "x", "y", "z"}
Upper == {"A", "B", "C", "D", "E", "F", "G", "H", "I", "J", "K", "L", "M",
          "N", "O", "P", "Q", "R", "S", "T", "U", "V", "W", "X", "Y", "Z"}
Octal == {"0", "1", "2", "3", "4", "5", "6", "7"}
Digit == Octal \cup {"8", "9"}
\* "U+00E9" stands for the two-byte character e-acute: a letter for \w.
NonAscii == {"U+00E9"}
WordCh == Lower \cup Upper \cup Digit \cup {"_"} \cup NonAscii
Space == {" ", "\t", "\n", "\r"}

\* str::len counts UTF-8 bytes, not characters.
Utf8Len(c) == IF c \in NonAscii THEN 2 ELSE 1

StrLen(s) == Len(s) + Cardinality({i \in 1..Len(s) : Utf8Len(s[i]) = 2})

\* ------------------------------------------------------------------ regex
Lit(c) == [t |-> "set", neg |-> FALSE, cs |-> {c}]
Cls(S) == [t |-> "set", neg |-> FALSE, cs |-> S]
NCls(S) == [t |-> "set", neg |-> TRUE, cs |-> S]
Dot == NCls({"\n"})
Eol == [t |-> "eol"]
Cat(rs) == [t |-> "cat", rs |-> rs]
Alt(rs) == [t |-> "alt", rs |-> rs]
\* max = -1: unbounded.  Repetitions are greedy.
Rep(r, min, max) == [t |-> "rep", r |-> r, min |-> min, max |-> max]
\* A literal string.
Text(cs) == [t |-> "text", cs |-> cs]
\* A source string that Regex::new rejects, such as "[invalid regex(".
BadRegex == [t |-> "invalid"]

\* Keep the first occurrence of every element.
RECURSIVE Dedup(_, _)
Dedup(seq, seen) ==
    IF seq = <<>> \/ (Len(seq) = 1 /\ seen = {}) THEN seq
    ELSE IF Head(seq) \in seen THEN Dedup(Tail(seq), seen)
    ELSE <<Head(seq)>> \o Dedup(Tail(seq), seen \cup {Head(seq)})

\* A greedy repetition of a one-character class: the longest run first, then
\* one character less at a time, down to min.
RunEnds(class, min, max, s, i) ==
    LET avail == Len(s) - i
        cap == IF max < 0 \/ max > avail THEN avail ELSE max
        runs == {n \in 0..cap :
                    \A j \in 1..n : (s[i + j] \in class.cs) # class.neg}
        longest == Cardinality(runs) - 1
    IN  [k \in 1..(longest - min + 1) |-> i + longest - (k - 1)]

\* Ends(r, s, i): the offsets at which a match of r that starts at offset i
\* (0-based, i characters before it) can end, in the order the matcher
\* prefers them.
RECURSIVE Ends(_, _, _), CatEnds(_, _, _, _), AltEnds(_, _, _, _),
          RepEnds(_, _, _, _, _), EachEnd(_, _, _, _), EachRep(_, _, _, _, _, _)
Ends(r, s, i) ==
    CASE r.t = "set" ->
            IF i < Len(s) /\ ((s[i + 1] \in r.cs) # r.neg) THEN <<i + 1>> ELSE <<>>
      [] r.t = "text" ->
            IF i + Len(r.cs) <= Len(s) /\ SubSeq(s, i + 1, i + Len(r.cs)) = r.cs
            THEN <<i + Len(r.cs)>> ELSE <<>>
      [] r.t = "eol" -> IF i = Len(s) THEN <<i>> ELSE <<>>
      [] r.t = "cat" -> CatEnds(r.rs, 1, s, <<i>>)
      [] r.t = "alt" -> Dedup(AltEnds(r.rs, 1, s, i), {})
      [] r.t = "rep" -> IF r.r.t = "set" THEN RunEnds(r.r, r.min, r.max, s, i)
                        ELSE Dedup(RepEnds(r.r, r.min, r.max, s, i), {})

EachEnd(r, s, starts, k) ==
    IF k > Len(starts) THEN <<>>
    ELSE IF k = Len(starts) THEN Ends(r, s, starts[k])
    ELSE Ends(r, s, starts[k]) \o EachEnd(r, s, starts, k + 1)

CatEnds(rs, k, s, starts) ==
    IF k > Len(rs) \/ starts = <<>> THEN starts
    ELSE CatEnds(rs, k + 1, s, Dedup(EachEnd(rs[k], s, starts, 1), {}))

AltEnds(rs, k, s, i) ==
    IF k > Len(rs) THEN <<>>
    ELSE Ends(rs[k], s, i) \o AltEnds(rs, k + 1, s, i)

EachRep(r, min, max, s, starts, k) ==
    IF k > Len(starts) THEN <<>>
    ELSE RepEnds(r, min, max, s, starts[k]) \o EachRep(r, min, max, s, starts, k + 1)

RepEnds(r, min, max, s, i) ==
    IF max = 0 THEN <<i>>
    ELSE LET once == SelectSeq(Ends(r, s, i), LAMBDA e : e > i)
             more == EachRep(r, IF min > 0 THEN min - 1 ELSE 0,
                             IF max > 0 THEN max - 1 ELSE max, s, once, 1)
         IN  IF min > 0 THEN more ELSE more \o <<i>>

\* ------------------------------------------------------------------ Regex::new
\* Whether r can match the empty string, and the characters a non-empty match
\* of r can start with, as a class [neg, cs]: the prefilter Regex::new builds.
RECURSIVE Nullable(_), AllNullable(_, _), AnyNullable(_, _)
Nullable(r) ==
    CASE r.t = "set" -> FALSE
      [] r.t = "text" -> r.cs = <<>>
      [] r.t = "eol" -> TRUE
      [] r.t = "cat" -> AllNullable(r.rs, 1)
      [] r.t = "alt" -> AnyNullable(r.rs, 1)
      [] r.t = "rep" -> r.min = 0 \/ Nullable(r.r)
AllNullable(rs, k) == k > Len(rs) \/ (Nullable(rs[k]) /\ AllNullable(rs, k + 1))
AnyNullable(rs, k) == k <= Len(rs) /\ (Nullable(rs[k]) \/ AnyNullable(rs, k + 1))

NoChars == [neg |-> FALSE, cs |-> {}]
ClassUnion(a, b) ==
    CASE ~a.neg /\ ~b.neg -> [neg |-> FALSE, cs |-> a.cs \cup b.cs]
      [] a.neg /\ ~b.neg -> [neg |-> TRUE, cs |-> a.cs \ b.cs]
      [] ~a.neg /\ b.neg -> [neg |-> TRUE, cs |-> b.cs \ a.cs]
      [] OTHER -> [neg |-> TRUE, cs |-> a.cs \cap b.cs]
InClass(c, class) == (c \in class.cs) # class.neg

RECURSIVE FirstChars(_), CatFirst(_, _), AltFirst(_, _)
FirstChars(r) ==
    CASE r.t = "set" -> [neg |-> r.neg, cs |-> r.cs]
      [] r.t = "text" -> IF r.cs = <<>> THEN NoChars
                         ELSE [neg |-> FALSE, cs |-> {r.cs[1]}]
      [] r.t = "eol" -> NoChars
      [] r.t = "cat" -> CatFirst(r.rs, 1)
      [] r.t = "alt" -> AltFirst(r.rs, 1)
      [] r.t = "rep" -> FirstChars(r.r)
CatFirst(rs, k) ==
    IF k > Len(rs) THEN NoChars
    ELSE IF Nullable(rs[k]) THEN ClassUnion(FirstChars(rs[k]), CatFirst(rs, k + 1))
    ELSE FirstChars(rs[k])
AltFirst(rs, k) ==
    IF k > Len(rs) THEN NoChars
    ELSE ClassUnion(FirstChars(rs[k]), AltFirst(rs, k + 1))

\* Regex::new: Err for a malformed source, else the compiled regex.
RegexNewOk(source) == source.t # "invalid"
RegexNew(source) ==
    [ast |-> source, nullable |-> Nullable(source), first |-> FirstChars(source)]

\* ------------------------------------------------------------------ searching
NoMatch == <<>>

\* Whether a match of re can start at offset at.
CanStart(re, s, at) ==
    re.nullable \/ (at < Len(s) /\ InClass(s[at + 1], re.first))

\* The match that starts at the least of the offsets starts.
Leftmost(re, s, starts) ==
    IF starts = {} THEN NoMatch
    ELSE LET start == CHOOSE i \in starts : \A j \in starts : i <= j
         IN  <<start, Head(Ends(re.ast, s, start))>>

\* The leftmost match at or after offset at: <<start, end>>, or NoMatch.
FindAt(re, s, at) ==
    Leftmost(re, s, {i \in at..Len(s) :
                        CanStart(re, s, i) /\ Ends(re.ast, s, i) # <<>>})

is_match(re, s) == FindAt(re, s, 0) # NoMatch

\* Regex::find_iter: successive non-overlapping matches; an empty match that
\* ends where the previous match ended is skipped by searching one further.
IsOverlappingEmpty(m, last_end) ==
    m # NoMatch /\ m[1] = m[2] /\ m[2] = last_end

RECURSIVE FindIterFrom(_, _, _, _), FindIterStep(_, _, _, _, _),
          FindIterNext(_, _, _)
FindIterFrom(re, s, at, last_end) ==
    FindIterStep(re, s, at, last_end, FindAt(re, s, at))

FindIterStep(re, s, at, last_end, m) ==
    IF IsOverlappingEmpty(m, last_end)
    THEN FindIterNext(re, s, FindAt(re, s, at + 1))
    ELSE FindIterNext(re, s, m)

FindIterNext(re, s, m) ==
    IF m = NoMatch THEN <<>>
    ELSE <<m>> \o FindIterFrom(re, s, m[2], m[2])

find_iter(re, s) == FindIterFrom(re, s, 0, -1)

\* ------------------------------------------------------------------ models
\* RiskLevel derives Ord in declaration order.
Safe == 0
Moderate == 1
High == 2
Critical == 3
RiskLevels == {Safe, Moderate, High, Critical}

SafetyLevels == {"Strict", "Moderate", "Permissive"}
ShellTypes == {"Bash", "Zsh", "Fish", "Sh", "PowerShell", "Cmd", "Unknown"}

None == [some |-> FALSE]
Some(x) == [some |-> TRUE, v |-> x]

\* Faulty variants of requires_confirmation: the Strict and Permissive arms
\* swapped; Moderate confirming Critical only; Permissive confirming High too.
requires_confirmation_swapped(risk, safety_level) ==
    CASE safety_level = "Strict" -> risk \in {Critical}
      [] safety_level = "Moderate" -> risk \in {High, Critical}
      [] safety_level = "Permissive" -> risk \in {Moderate, High, Critical}

requires_confirmation_moderate_lenient(risk, safety_level) ==
    CASE safety_level = "Strict" -> risk \in {Moderate, High, Critical}
      [] safety_level = "Moderate" -> risk \in {Critical}
      [] safety_level = "Permissive" -> risk \in {Critical}

requires_confirmation_permissive_high(risk, safety_level) ==
    CASE safety_level = "Strict" -> risk \in {Moderate, High, Critical}
      [] safety_level = "Moderate" -> risk \in {High, Critical}
      [] safety_level = "Permissive" -> risk \in {High, Critical}

requires_confirmation_strict_from_safe(risk, safety_level) ==
    CASE safety_level = "Strict" -> risk \in {Safe, Moderate, High, Critical}
      [] safety_level = "Moderate" -> risk \in {High, Critical}
      [] safety_level = "Permissive" -> risk \in {Critical}

requires_confirmation(risk, safety_level) ==
    CASE safety_level = "Strict" -> risk \in {Moderate, High, Critical}
      [] safety_level = "Moderate" -> risk \in {High, Critical}
      [] safety_level = "Permissive" -> risk \in {Critical}

\* Faulty variant of is_blocked: the Moderate arm repeats the Strict one.
is_blocked_moderate_as_strict(risk, safety_level) ==
    CASE safety_level = "Strict" -> risk \in {High, Critical}
      [] safety_level = "Moderate" -> risk \in {High, Critical}
      [] safety_level = "Permissive" -> FALSE

\* Faulty variant of is_blocked: the Moderate level blocks from Moderate risk.
is_blocked_from_moderate(risk, safety_level) ==
    CASE safety_level = "Strict" -> risk \in {High, Critical}
      [] safety_level = "Moderate" -> risk \in {Moderate, High, Critical}
      [] safety_level = "Permissive" -> FALSE

is_blocked(risk, safety_level) ==
    CASE safety_level = "Strict" -> risk \in {High, Critical}
      [] safety_level = "Moderate" -> risk \in {Critical}
      [] safety_level = "Permissive" -> FALSE

\* ------------------------------------------------------------------ catalogue
\* DANGEROUS_PATTERNS, in source order; each entry quotes its regex source and
\* its description.
DANGEROUS_PATTERNS == <<
    \* 1. r"rm\s+(-[rfRF]*\s+)*(/|~|\$HOME|/\*|~/\*)"  (patterns.rs:16)
    \*    "Recursive deletion of root or home directory"
    [pattern |-> Cat(<<Text(<<"r", "m">>), Rep(Cls(Space), 1, -1), Rep(Cat(<<Lit("-"),
        Rep(Cls({"r", "f", "R", "F"}), 0, -1), Rep(Cls(Space), 1, -1)>>), 0,
        -1), Alt(<<Lit("/"), Lit("~"), Text(<<"$", "H", "O", "M", "E">>),
        Text(<<"/", "*">>), Text(<<"~", "/", "*">>)>>)>>),
     risk_level |-> Critical,
     description |-> <<"R", "e", "c", "u", "r", "s", "i", "v", "e", " ", "d", "e", "l", "e",
        "t", "i", "o", "n", " ", "o", "f", " ", "r", "o", "o", "t", " ", "o",
        "r", " ", "h", "o", "m", "e", " ", "d", "i", "r", "e", "c", "t", "o",
        "r", "y">>,
     shell_specific |-> None],
    \* 2. r"rm\s+-rf\s+/"  (patterns.rs:22)
    \*    "Force recursive deletion from root"
    [pattern |-> Cat(<<Text(<<"r", "m">>), Rep(Cls(Space), 1, -1), Text(<<"-", "r",
        "f">>), Rep(Cls(Space), 1, -1), Lit("/")>>),
     risk_level |-> Critical,
     description |-> <<"F", "o", "r", "c", "e", " ", "r", "e", "c", "u", "r", "s", "i", "v",
        "e", " ", "d", "e", "l", "e", "t", "i", "o", "n", " ", "f", "r", "o",
        "m", " ", "r", "o", "o", "t">>,
     shell_specific |-> None],
    \* 3. r"rm\s+-rf\s+--no-preserve-root\s+/"  (patterns.rs:28)
    \*    "Bypass root protection and delete everything"
    [pattern |-> Cat(<<Text(<<"r", "m">>), Rep(Cls(Space), 1, -1), Text(<<"-", "r",
        "f">>), Rep(Cls(Space), 1, -1), Text(<<"-", "-", "n", "o", "-", "p",
        "r", "e", "s", "e", "r", "v", "e", "-", "r", "o", "o", "t">>),
        Rep(Cls(Space), 1, -1), Lit("/")>>),
     risk_level |-> Critical,
     description |-> <<"B", "y", "p", "a", "s", "s", " ", "r", "o", "o", "t", " ", "p", "r",
        "o", "t", "e", "c", "t", "i", "o", "n", " ", "a", "n", "d", " ", "d",
        "e", "l", "e", "t", "e", " ", "e", "v", "e", "r", "y", "t", "h", "i",
        "n", "g">>,
     shell_specific |-> None],
    \* 4. r"dd\s+.*if=/dev/(zero|random|urandom).*of=/dev/(sd|hd|nvme)"  (patterns.rs:35)
    \*    "Overwrite disk with random data"
    [pattern |-> Cat(<<Text(<<"d", "d">>), Rep(Cls(Space), 1, -1), Rep(Dot, 0, -1),
        Text(<<"i", "f", "=", "/", "d", "e", "v", "/">>), Alt(<<Text(<<"z",
        "e", "r", "o">>), Text(<<"r", "a", "n", "d", "o", "m">>), Text(<<"u",
        "r", "a", "n", "d", "o", "m">>)>>), Rep(Dot, 0, -1), Text(<<"o", "f",
        "=", "/", "d", "e", "v", "/">>), Alt(<<Text(<<"s", "d">>), Text(<<"h",
        "d">>), Text(<<"n", "v", "m", "e">>)>>)>>),
     risk_level |-> Critical,
     description |-> <<"O", "v", "e", "r", "w", "r", "i", "t", "e", " ", "d", "i", "s", "k",
        " ", "w", "i", "t", "h", " ", "r", "a", "n", "d", "o", "m", " ", "d",
        "a", "t", "a">>,
     shell_specific |-> None],
    \* 5. r"mkfs\.\w+\s+/dev/(sd|hd|nvme)"  (patterns.rs:41)
    \*    "Format disk destroying all data"
    [pattern |-> Cat(<<Text(<<"m", "k", "f", "s", ".">>), Rep(Cls(WordCh), 1, -1),
        Rep(Cls(Space), 1, -1), Text(<<"/", "d", "e", "v", "/">>),
        Alt(<<Text(<<"s", "d">>), Text(<<"h", "d">>), Text(<<"n", "v", "m",
        "e">>)>>)>>),
     risk_level |-> Critical,
     description |-> <<"F", "o", "r", "m", "a", "t", " ", "d", "i", "s", "k", " ", "d", "e",
        "s", "t", "r", "o", "y", "i", "n", "g", " ", "a", "l", "l", " ", "d",
        "a", "t", "a">>,
     shell_specific |-> None],
    \* 6. r":\(\)\s*\{\s*:\s*\|\s*:\s*&\s*\}\s*;\s*:"  (patterns.rs:48)
    \*    "Fork bomb - exponential process creation"
    [pattern |-> Cat(<<Text(<<":", "(", ")">>), Rep(Cls(Space), 0, -1), Lit("{"),
        Rep(Cls(Space), 0, -1), Lit(":"), Rep(Cls(Space), 0, -1), Lit("|"),
        Rep(Cls(Space), 0, -1), Lit(":"), Rep(Cls(Space), 0, -1), Lit("&"),
        Rep(Cls(Space), 0, -1), Lit("}"), Rep(Cls(Space), 0, -1), Lit(";"),
        Rep(Cls(Space), 0, -1), Lit(":")>>),
     risk_level |-> Critical,
     description |-> <<"F", "o", "r", "k", " ", "b", "o", "m", "b", " ", "-", " ", "e", "x",
        "p", "o", "n", "e", "n", "t", "i", "a", "l", " ", "p", "r", "o", "c",
        "e", "s", "s", " ", "c", "r", "e", "a", "t", "i", "o", "n">>,
     shell_specific |-> Some("Bash")],
    \* 7. r"\|\s*&\s*\|"  (patterns.rs:54)
    \*    "Potential fork bomb pattern"
    [pattern |-> Cat(<<Lit("|"), Rep(Cls(Space), 0, -1), Lit("&"), Rep(Cls(Space), 0,
        -1), Lit("|")>>),
     risk_level |-> Critical,
     description |-> <<"P", "o", "t", "e", "n", "t", "i", "a", "l", " ", "f", "o", "r", "k",
        " ", "b", "o", "m", "b", " ", "p", "a", "t", "t", "e", "r", "n">>,
     shell_specific |-> None],
    \* 8. r"(rm|mv|chmod|chown)\s+.*(/bin|/sbin|/usr/bin|/usr/sbin|/etc)"  (patterns.rs:61)
    \*    "Modification of critical system directories"
    [pattern |-> Cat(<<Alt(<<Text(<<"r", "m">>), Text(<<"m", "v">>), Text(<<"c", "h",
        "m", "o", "d">>), Text(<<"c", "h", "o", "w", "n">>)>>), Rep(Cls(Space),
        1, -1), Rep(Dot, 0, -1), Alt(<<Text(<<"/", "b", "i", "n">>),
        Text(<<"/", "s", "b", "i", "n">>), Text(<<"/", "u", "s", "r", "/", "b",
        "i", "n">>), Text(<<"/", "u", "s", "r", "/", "s", "b", "i", "n">>),
        Text(<<"/", "e", "t", "c">>)>>)>>),
     risk_level |-> High,
     description |-> <<"M", "o", "d", "i", "f", "i", "c", "a", "t", "i", "o", "n", " ", "o",
        "f", " ", "c", "r", "i", "t", "i", "c", "a", "l", " ", "s", "y", "s",
        "t", "e", "m", " ", "d", "i", "r", "e", "c", "t", "o", "r", "i", "e",
        "s">>,
     shell_specific |-> None],
    \* 9. r"chmod\s+777\s+/"  (patterns.rs:67)
    \*    "Recursive permission change from root"
    [pattern |-> Cat(<<Text(<<"c", "h", "m", "o", "d">>), Rep(Cls(Space), 1, -1),
        Text(<<"7", "7", "7">>), Rep(Cls(Space), 1, -1), Lit("/")>>),
     risk_level |-> High,
     description |-> <<"R", "e", "c", "u", "r", "s", "i", "v", "e", " ", "p", "e", "r", "m",
        "i", "s", "s", "i", "o", "n", " ", "c", "h", "a", "n", "g", "e", " ",
        "f", "r", "o", "m", " ", "r", "o", "o", "t">>,
     shell_specific |-> None],
    \* 10. r"sudo\s+su\s*$"  (patterns.rs:74)
    \*    "Switch to root user without specific command"
    [pattern |-> Cat(<<Text(<<"s", "u", "d", "o">>), Rep(Cls(Space), 1, -1), Text(<<"s",
        "u">>), Rep(Cls(Space), 0, -1), Eol>>),
     risk_level |-> High,
     description |-> <<"S", "w", "i", "t", "c", "h", " ", "t", "o", " ", "r", "o", "o", "t",
        " ", "u", "s", "e", "r", " ", "w", "i", "t", "h", "o", "u", "t", " ",
        "s", "p", "e", "c", "i", "f", "i", "c", " ", "c", "o", "m", "m", "a",
        "n", "d">>,
     shell_specific |-> None],
    \* 11. r"sudo\s+.*chmod\s+u\+s"  (patterns.rs:80)
    \*    "Adding setuid bit with elevated privileges"
    [pattern |-> Cat(<<Text(<<"s", "u", "d", "o">>), Rep(Cls(Space), 1, -1), Rep(Dot, 0,
        -1), Text(<<"c", "h", "m", "o", "d">>), Rep(Cls(Space), 1, -1),
        Text(<<"u", "+", "s">>)>>),
     risk_level |-> High,
     description |-> <<"A", "d", "d", "i", "n", "g", " ", "s", "e", "t", "u", "i", "d", " ",
        "b", "i", "t", " ", "w", "i", "t", "h", " ", "e", "l", "e", "v", "a",
        "t", "e", "d", " ", "p", "r", "i", "v", "i", "l", "e", "g", "e", "s">>,
     shell_specific |-> None],
    \* 12. r"(curl|wget)\s+.*\|\s*(bash|sh|zsh|fish)"  (patterns.rs:87)
    \*    "Download and execute remote script without inspection"
    [pattern |-> Cat(<<Alt(<<Text(<<"c", "u", "r", "l">>), Text(<<"w", "g", "e",
        "t">>)>>), Rep(Cls(Space), 1, -1), Rep(Dot, 0, -1), Lit("|"),
        Rep(Cls(Space), 0, -1), Alt(<<Text(<<"b", "a", "s", "h">>), Text(<<"s",
        "h">>), Text(<<"z", "s", "h">>), Text(<<"f", "i", "s", "h">>)>>)>>),
     risk_level |-> High,
     description |-> <<"D", "o", "w", "n", "l", "o", "a", "d", " ", "a", "n", "d", " ", "e",
        "x", "e", "c", "u", "t", "e", " ", "r", "e", "m", "o", "t", "e", " ",
        "s", "c", "r", "i", "p", "t", " ", "w", "i", "t", "h", "o", "u", "t",
        " ", "i", "n", "s", "p", "e", "c", "t", "i", "o", "n">>,
     shell_specific |-> None],
    \* 13. r"(curl|wget)\s+.*\|\s*sudo\s+(bash|sh)"  (patterns.rs:93)
    \*    "Download and execute remote script with root privileges"
    [pattern |-> Cat(<<Alt(<<Text(<<"c", "u", "r", "l">>), Text(<<"w", "g", "e",
        "t">>)>>), Rep(Cls(Space), 1, -1), Rep(Dot, 0, -1), Lit("|"),
        Rep(Cls(Space), 0, -1), Text(<<"s", "u", "d", "o">>), Rep(Cls(Space),
        1, -1), Alt(<<Text(<<"b", "a", "s", "h">>), Text(<<"s", "h">>)>>)>>),
     risk_level |-> Critical,
     description |-> <<"D", "o", "w", "n", "l", "o", "a", "d", " ", "a", "n", "d", " ", "e",
        "x", "e", "c", "u", "t", "e", " ", "r", "e", "m", "o", "t", "e", " ",
        "s", "c", "r", "i", "p", "t", " ", "w", "i", "t", "h", " ", "r", "o",
        "o", "t", " ", "p", "r", "i", "v", "i", "l", "e", "g", "e", "s">>,
     shell_specific |-> None],
    \* 14. r"(apt|yum|dnf)\s+remove\s+.*--force"  (patterns.rs:100)
    \*    "Force removal of packages bypassing dependencies"
    [pattern |-> Cat(<<Alt(<<Text(<<"a", "p", "t">>), Text(<<"y", "u", "m">>),
        Text(<<"d", "n", "f">>)>>), Rep(Cls(Space), 1, -1), Text(<<"r", "e",
        "m", "o", "v", "e">>), Rep(Cls(Space), 1, -1), Rep(Dot, 0, -1),
        Text(<<"-", "-", "f", "o", "r", "c", "e">>)>>),
     risk_level |-> Moderate,
     description |-> <<"F", "o", "r", "c", "e", " ", "r", "e", "m", "o", "v", "a", "l", " ",
        "o", "f", " ", "p", "a", "c", "k", "a", "g", "e", "s", " ", "b", "y",
        "p", "a", "s", "s", "i", "n", "g", " ", "d", "e", "p", "e", "n", "d",
        "e", "n", "c", "i", "e", "s">>,
     shell_specific |-> None],
    \* 15. r"pip\s+install\s+.*--break-system-packages"  (patterns.rs:106)
    \*    "Install Python packages bypassing system protections"
    [pattern |-> Cat(<<Text(<<"p", "i", "p">>), Rep(Cls(Space), 1, -1), Text(<<"i", "n",
        "s", "t", "a", "l", "l">>), Rep(Cls(Space), 1, -1), Rep(Dot, 0, -1),
        Text(<<"-", "-", "b", "r", "e", "a", "k", "-", "s", "y", "s", "t", "e",
        "m", "-", "p", "a", "c", "k", "a", "g", "e", "s">>)>>),
     risk_level |-> Moderate,
     description |-> <<"I", "n", "s", "t", "a", "l", "l", " ", "P", "y", "t", "h", "o", "n",
        " ", "p", "a", "c", "k", "a", "g", "e", "s", " ", "b", "y", "p", "a",
        "s", "s", "i", "n", "g", " ", "s", "y", "s", "t", "e", "m", " ", "p",
        "r", "o", "t", "e", "c", "t", "i", "o", "n", "s">>,
     shell_specific |-> None],
    \* 16. r"kill\s+-9\s+(-1|1)\s*$"  (patterns.rs:113)
    \*    "Force kill all processes or init"
    [pattern |-> Cat(<<Text(<<"k", "i", "l", "l">>), Rep(Cls(Space), 1, -1), Text(<<"-",
        "9">>), Rep(Cls(Space), 1, -1), Alt(<<Text(<<"-", "1">>), Lit("1")>>),
        Rep(Cls(Space), 0, -1), Eol>>),
     risk_level |-> Moderate,
     description |-> <<"F", "o", "r", "c", "e", " ", "k", "i", "l", "l", " ", "a", "l", "l",
        " ", "p", "r", "o", "c", "e", "s", "s", "e", "s", " ", "o", "r", " ",
        "i", "n", "i", "t">>,
     shell_specific |-> None],
    \* 17. r"killall\s+-9\s+\w+"  (patterns.rs:119)
    \*    "Force kill all processes by name"
    [pattern |-> Cat(<<Text(<<"k", "i", "l", "l", "a", "l", "l">>), Rep(Cls(Space), 1,
        -1), Text(<<"-", "9">>), Rep(Cls(Space), 1, -1), Rep(Cls(WordCh), 1,
        -1)>>),
     risk_level |-> Moderate,
     description |-> <<"F", "o", "r", "c", "e", " ", "k", "i", "l", "l", " ", "a", "l", "l",
        " ", "p", "r", "o", "c", "e", "s", "s", "e", "s", " ", "b", "y", " ",
        "n", "a", "m", "e">>,
     shell_specific |-> None],
    \* 18. r">\s*/dev/sd[a-z]"  (patterns.rs:126)
    \*    "Direct write to disk device"
    [pattern |-> Cat(<<Lit(">"), Rep(Cls(Space), 0, -1), Text(<<"/", "d", "e", "v", "/",
        "s", "d">>), Cls(Lower)>>),
     risk_level |-> Critical,
     description |-> <<"D", "i", "r", "e", "c", "t", " ", "w", "r", "i", "t", "e", " ", "t",
        "o", " ", "d", "i", "s", "k", " ", "d", "e", "v", "i", "c", "e">>,
     shell_specific |-> None],
    \* 19. r"shred\s+-[uvz]*\s+/dev/(sd|hd|nvme)"  (patterns.rs:132)
    \*    "Securely delete disk device"
    [pattern |-> Cat(<<Text(<<"s", "h", "r", "e", "d">>), Rep(Cls(Space), 1, -1),
        Lit("-"), Rep(Cls({"u", "v", "z"}), 0, -1), Rep(Cls(Space), 1, -1),
        Text(<<"/", "d", "e", "v", "/">>), Alt(<<Text(<<"s", "d">>),
        Text(<<"h", "d">>), Text(<<"n", "v", "m", "e">>)>>)>>),
     risk_level |-> Critical,
     description |-> <<"S", "e", "c", "u", "r", "e", "l", "y", " ", "d", "e", "l", "e", "t",
        "e", " ", "d", "i", "s", "k", " ", "d", "e", "v", "i", "c", "e">>,
     shell_specific |-> None],
    \* 20. r"iptables\s+-F"  (patterns.rs:139)
    \*    "Flush all firewall rules"
    [pattern |-> Cat(<<Text(<<"i", "p", "t", "a", "b", "l", "e", "s">>), Rep(Cls(Space),
        1, -1), Text(<<"-", "F">>)>>),
     risk_level |-> Moderate,
     description |-> <<"F", "l", "u", "s", "h", " ", "a", "l", "l", " ", "f", "i", "r", "e",
        "w", "a", "l", "l", " ", "r", "u", "l", "e", "s">>,
     shell_specific |-> None],
    \* 21. r"ufw\s+disable"  (patterns.rs:145)
    \*    "Disable firewall"
    [pattern |-> Cat(<<Text(<<"u", "f", "w">>), Rep(Cls(Space), 1, -1), Text(<<"d", "i",
        "s", "a", "b", "l", "e">>)>>),
     risk_level |-> Moderate,
     description |-> <<"D", "i", "s", "a", "b", "l", "e", " ", "f", "i", "r", "e", "w", "a",
        "l", "l">>,
     shell_specific |-> None],
    \* 22. r"sudo\s+(systemctl|service)\s+(restart|stop|disable)"  (patterns.rs:152)
    \*    "Modify system services with elevated privileges"
    [pattern |-> Cat(<<Text(<<"s", "u", "d", "o">>), Rep(Cls(Space), 1, -1),
        Alt(<<Text(<<"s", "y", "s", "t", "e", "m", "c", "t", "l">>),
        Text(<<"s", "e", "r", "v", "i", "c", "e">>)>>), Rep(Cls(Space), 1, -1),
        Alt(<<Text(<<"r", "e", "s", "t", "a", "r", "t">>), Text(<<"s", "t",
        "o", "p">>), Text(<<"d", "i", "s", "a", "b", "l", "e">>)>>)>>),
     risk_level |-> High,
     description |-> <<"M", "o", "d", "i", "f", "y", " ", "s", "y", "s", "t", "e", "m", " ",
        "s", "e", "r", "v", "i", "c", "e", "s", " ", "w", "i", "t", "h", " ",
        "e", "l", "e", "v", "a", "t", "e", "d", " ", "p", "r", "i", "v", "i",
        "l", "e", "g", "e", "s">>,
     shell_specific |-> None],
    \* 23. r"sudo\s+rm\s"  (patterns.rs:158)
    \*    "Delete files with elevated privileges"
    [pattern |-> Cat(<<Text(<<"s", "u", "d", "o">>), Rep(Cls(Space), 1, -1), Text(<<"r",
        "m">>), Cls(Space)>>),
     risk_level |-> High,
     description |-> <<"D", "e", "l", "e", "t", "e", " ", "f", "i", "l", "e", "s", " ", "w",
        "i", "t", "h", " ", "e", "l", "e", "v", "a", "t", "e", "d", " ", "p",
        "r", "i", "v", "i", "l", "e", "g", "e", "s">>,
     shell_specific |-> None],
    \* 24. r">\s*/etc/"  (patterns.rs:165)
    \*    "Redirect output to system configuration file"
    [pattern |-> Cat(<<Lit(">"), Rep(Cls(Space), 0, -1), Text(<<"/", "e", "t", "c",
        "/">>)>>),
     risk_level |-> High,
     description |-> <<"R", "e", "d", "i", "r", "e", "c", "t", " ", "o", "u", "t", "p", "u",
        "t", " ", "t", "o", " ", "s", "y", "s", "t", "e", "m", " ", "c", "o",
        "n", "f", "i", "g", "u", "r", "a", "t", "i", "o", "n", " ", "f", "i",
        "l", "e">>,
     shell_specific |-> None],
    \* 25. r"(echo|cat|printf)\s+.*>\s*/etc/"  (patterns.rs:171)
    \*    "Write to system configuration directory"
    [pattern |-> Cat(<<Alt(<<Text(<<"e", "c", "h", "o">>), Text(<<"c", "a", "t">>),
        Text(<<"p", "r", "i", "n", "t", "f">>)>>), Rep(Cls(Space), 1, -1),
        Rep(Dot, 0, -1), Lit(">"), Rep(Cls(Space), 0, -1), Text(<<"/", "e",
        "t", "c", "/">>)>>),
     risk_level |-> High,
     description |-> <<"W", "r", "i", "t", "e", " ", "t", "o", " ", "s", "y", "s", "t", "e",
        "m", " ", "c", "o", "n", "f", "i", "g", "u", "r", "a", "t", "i", "o",
        "n", " ", "d", "i", "r", "e", "c", "t", "o", "r", "y">>,
     shell_specific |-> None],
    \* 26. r"rm\s+-r[f]*\s+[A-Z]:\\"  (patterns.rs:178)
    \*    "Recursive deletion of Windows drive root"
    [pattern |-> Cat(<<Text(<<"r", "m">>), Rep(Cls(Space), 1, -1), Text(<<"-", "r">>),
        Rep(Cls({"f"}), 0, -1), Rep(Cls(Space), 1, -1), Cls(Upper), Text(<<":",
        "\\">>)>>),
     risk_level |-> Critical,
     description |-> <<"R", "e", "c", "u", "r", "s", "i", "v", "e", " ", "d", "e", "l", "e",
        "t", "i", "o", "n", " ", "o", "f", " ", "W", "i", "n", "d", "o", "w",
        "s", " ", "d", "r", "i", "v", "e", " ", "r", "o", "o", "t">>,
     shell_specific |-> Some("Bash")],
    \* 27. r"Remove-Item\s+-Recurse\s+-Force\s+[A-Z]:\\"  (patterns.rs:184)
    \*    "Recursive deletion of Windows drive root"
    [pattern |-> Cat(<<Text(<<"R", "e", "m", "o", "v", "e", "-", "I", "t", "e", "m">>),
        Rep(Cls(Space), 1, -1), Text(<<"-", "R", "e", "c", "u", "r", "s",
        "e">>), Rep(Cls(Space), 1, -1), Text(<<"-", "F", "o", "r", "c", "e">>),
        Rep(Cls(Space), 1, -1), Cls(Upper), Text(<<":", "\\">>)>>),
     risk_level |-> Critical,
     description |-> <<"R", "e", "c", "u", "r", "s", "i", "v", "e", " ", "d", "e", "l", "e",
        "t", "i", "o", "n", " ", "o", "f", " ", "W", "i", "n", "d", "o", "w",
        "s", " ", "d", "r", "i", "v", "e", " ", "r", "o", "o", "t">>,
     shell_specific |-> Some("PowerShell")],
    \* 28. r"Remove-Item\s+.*-Force\s+-Recurse"  (patterns.rs:191)
    \*    "Force recursive deletion in PowerShell"
    [pattern |-> Cat(<<Text(<<"R", "e", "m", "o", "v", "e", "-", "I", "t", "e", "m">>),
        Rep(Cls(Space), 1, -1), Rep(Dot, 0, -1), Text(<<"-", "F", "o", "r",
        "c", "e">>), Rep(Cls(Space), 1, -1), Text(<<"-", "R", "e", "c", "u",
        "r", "s", "e">>)>>),
     risk_level |-> High,
     description |-> <<"F", "o", "r", "c", "e", " ", "r", "e", "c", "u", "r", "s", "i", "v",
        "e", " ", "d", "e", "l", "e", "t", "i", "o", "n", " ", "i", "n", " ",
        "P", "o", "w", "e", "r", "S", "h", "e", "l", "l">>,
     shell_specific |-> Some("PowerShell")],
    \* 29. r"Set-ExecutionPolicy\s+Unrestricted"  (patterns.rs:197)
    \*    "Disable PowerShell execution policy protection"
    [pattern |-> Cat(<<Text(<<"S", "e", "t", "-", "E", "x", "e", "c", "u", "t", "i",
        "o", "n", "P", "o", "l", "i", "c", "y">>), Rep(Cls(Space), 1, -1),
        Text(<<"U", "n", "r", "e", "s", "t", "r", "i", "c", "t", "e",
        "d">>)>>),
     risk_level |-> High,
     description |-> <<"D", "i", "s", "a", "b", "l", "e", " ", "P", "o", "w", "e", "r", "S",
        "h", "e", "l", "l", " ", "e", "x", "e", "c", "u", "t", "i", "o", "n",
        " ", "p", "o", "l", "i", "c", "y", " ", "p", "r", "o", "t", "e", "c",
        "t", "i", "o", "n">>,
     shell_specific |-> Some("PowerShell")],
    \* 30. r"export\s+PATH="  (patterns.rs:204)
    \*    "Modify PATH environment variable"
    [pattern |-> Cat(<<Text(<<"e", "x", "p", "o", "r", "t">>), Rep(Cls(Space), 1, -1),
        Text(<<"P", "A", "T", "H", "=">>)>>),
     risk_level |-> Moderate,
     description |-> <<"M", "o", "d", "i", "f", "y", " ", "P", "A", "T", "H", " ", "e", "n",
        "v", "i", "r", "o", "n", "m", "e", "n", "t", " ", "v", "a", "r", "i",
        "a", "b", "l", "e">>,
     shell_specific |-> None],
    \* 31. r"alias\s+(rm|mv|cp)="  (patterns.rs:210)
    \*    "Override critical command with alias"
    [pattern |-> Cat(<<Text(<<"a", "l", "i", "a", "s">>), Rep(Cls(Space), 1, -1),
        Alt(<<Text(<<"r", "m">>), Text(<<"m", "v">>), Text(<<"c", "p">>)>>),
        Lit("=")>>),
     risk_level |-> Moderate,
     description |-> <<"O", "v", "e", "r", "r", "i", "d", "e", " ", "c", "r", "i", "t", "i",
        "c", "a", "l", " ", "c", "o", "m", "m", "a", "n", "d", " ", "w", "i",
        "t", "h", " ", "a", "l", "i", "a", "s">>,
     shell_specific |-> None],
    \* 32. r"nc\s+.*-[a-z]*l[a-z]*\s+.*-[a-z]*e"  (patterns.rs:217)
    \*    "Netcat bind shell - creates network backdoor"
    [pattern |-> Cat(<<Text(<<"n", "c">>), Rep(Cls(Space), 1, -1), Rep(Dot, 0, -1),
        Lit("-"), Rep(Cls(Lower), 0, -1), Lit("l"), Rep(Cls(Lower), 0, -1),
        Rep(Cls(Space), 1, -1), Rep(Dot, 0, -1), Lit("-"), Rep(Cls(Lower), 0,
        -1), Lit("e")>>),
     risk_level |-> Critical,
     description |-> <<"N", "e", "t", "c", "a", "t", " ", "b", "i", "n", "d", " ", "s", "h",
        "e", "l", "l", " ", "-", " ", "c", "r", "e", "a", "t", "e", "s", " ",
        "n", "e", "t", "w", "o", "r", "k", " ", "b", "a", "c", "k", "d", "o",
        "o", "r">>,
     shell_specific |-> None],
    \* 33. r"nc\s+-[a-z]*e\s+/bin/(ba)?sh"  (patterns.rs:223)
    \*    "Netcat shell binding"
    [pattern |-> Cat(<<Text(<<"n", "c">>), Rep(Cls(Space), 1, -1), Lit("-"),
        Rep(Cls(Lower), 0, -1), Lit("e"), Rep(Cls(Space), 1, -1), Text(<<"/",
        "b", "i", "n", "/">>), Rep(Text(<<"b", "a">>), 0, 1), Text(<<"s",
        "h">>)>>),
     risk_level |-> Critical,
     description |-> <<"N", "e", "t", "c", "a", "t", " ", "s", "h", "e", "l", "l", " ", "b",
        "i", "n", "d", "i", "n", "g">>,
     shell_specific |-> None],
    \* 34. r"crontab\s+-r"  (patterns.rs:230)
    \*    "Remove all cron jobs"
    [pattern |-> Cat(<<Text(<<"c", "r", "o", "n", "t", "a", "b">>), Rep(Cls(Space), 1,
        -1), Text(<<"-", "r">>)>>),
     risk_level |-> High,
     description |-> <<"R", "e", "m", "o", "v", "e", " ", "a", "l", "l", " ", "c", "r", "o",
        "n", " ", "j", "o", "b", "s">>,
     shell_specific |-> None],
    \* 35. r"\(crontab\s+-l.*;\s*echo"  (patterns.rs:236)
    \*    "Add malicious cron job"
    [pattern |-> Cat(<<Text(<<"(", "c", "r", "o", "n", "t", "a", "b">>), Rep(Cls(Space),
        1, -1), Text(<<"-", "l">>), Rep(Dot, 0, -1), Lit(";"), Rep(Cls(Space),
        0, -1), Text(<<"e", "c", "h", "o">>)>>),
     risk_level |-> High,
     description |-> <<"A", "d", "d", " ", "m", "a", "l", "i", "c", "i", "o", "u", "s", " ",
        "c", "r", "o", "n", " ", "j", "o", "b">>,
     shell_specific |-> None],
    \* 36. r"python\s+-c\s+.*os\.system.*rm\s+-rf"  (patterns.rs:243)
    \*    "Python executing recursive deletion"
    [pattern |-> Cat(<<Text(<<"p", "y", "t", "h", "o", "n">>), Rep(Cls(Space), 1, -1),
        Text(<<"-", "c">>), Rep(Cls(Space), 1, -1), Rep(Dot, 0, -1),
        Text(<<"o", "s", ".", "s", "y", "s", "t", "e", "m">>), Rep(Dot, 0, -1),
        Text(<<"r", "m">>), Rep(Cls(Space), 1, -1), Text(<<"-", "r", "f">>)>>),
     risk_level |-> Critical,
     description |-> <<"P", "y", "t", "h", "o", "n", " ", "e", "x", "e", "c", "u", "t", "i",
        "n", "g", " ", "r", "e", "c", "u", "r", "s", "i", "v", "e", " ", "d",
        "e", "l", "e", "t", "i", "o", "n">>,
     shell_specific |-> None],
    \* 37. r"(python|perl|ruby)\s+-[ec]\s+.*system\s*\("  (patterns.rs:249)
    \*    "Script language executing shell commands"
    [pattern |-> Cat(<<Alt(<<Text(<<"p", "y", "t", "h", "o", "n">>), Text(<<"p", "e",
        "r", "l">>), Text(<<"r", "u", "b", "y">>)>>), Rep(Cls(Space), 1, -1),
        Lit("-"), Cls({"e", "c"}), Rep(Cls(Space), 1, -1), Rep(Dot, 0, -1),
        Text(<<"s", "y", "s", "t", "e", "m">>), Rep(Cls(Space), 0, -1),
        Lit("(")>>),
     risk_level |-> High,
     description |-> <<"S", "c", "r", "i", "p", "t", " ", "l", "a", "n", "g", "u", "a", "g",
        "e", " ", "e", "x", "e", "c", "u", "t", "i", "n", "g", " ", "s", "h",
        "e", "l", "l", " ", "c", "o", "m", "m", "a", "n", "d", "s">>,
     shell_specific |-> None],
    \* 38. r"rm\s+[^-\s][^\s]*\.(txt|doc|pdf|xlsx|pptx|zip|tar|sql|bak)"  (patterns.rs:256)
    \*    "Deleting important file types"
    [pattern |-> Cat(<<Text(<<"r", "m">>), Rep(Cls(Space), 1, -1),
        NCls({"-"} \cup Space), Rep(NCls(Space), 0, -1), Lit("."),
        Alt(<<Text(<<"t", "x", "t">>), Text(<<"d", "o", "c">>), Text(<<"p",
        "d", "f">>), Text(<<"x", "l", "s", "x">>), Text(<<"p", "p", "t",
        "x">>), Text(<<"z", "i", "p">>), Text(<<"t", "a", "r">>), Text(<<"s",
        "q", "l">>), Text(<<"b", "a", "k">>)>>)>>),
     risk_level |-> Moderate,
     description |-> <<"D", "e", "l", "e", "t", "i", "n", "g", " ", "i", "m", "p", "o", "r",
        "t", "a", "n", "t", " ", "f", "i", "l", "e", " ", "t", "y", "p", "e",
        "s">>,
     shell_specific |-> None],
    \* 39. r"rm\s+-r[f]*\s+[A-Z]:[/\\]"  (patterns.rs:263)
    \*    "Recursive deletion of Windows drive root (with backslash)"
    [pattern |-> Cat(<<Text(<<"r", "m">>), Rep(Cls(Space), 1, -1), Text(<<"-", "r">>),
        Rep(Cls({"f"}), 0, -1), Rep(Cls(Space), 1, -1), Cls(Upper), Lit(":"),
        Cls({"/", "\\"})>>),
     risk_level |-> Critical,
     description |-> <<"R", "e", "c", "u", "r", "s", "i", "v", "e", " ", "d", "e", "l", "e",
        "t", "i", "o", "n", " ", "o", "f", " ", "W", "i", "n", "d", "o", "w",
        "s", " ", "d", "r", "i", "v", "e", " ", "r", "o", "o", "t", " ", "(",
        "w", "i", "t", "h", " ", "b", "a", "c", "k", "s", "l", "a", "s", "h",
        ")">>,
     shell_specific |-> None],
    \* 40. r"chmod\s+[+\-]x\s+"  (patterns.rs:270)
    \*    "Making files executable"
    [pattern |-> Cat(<<Text(<<"c", "h", "m", "o", "d">>), Rep(Cls(Space), 1, -1),
        Cls({"+", "-"}), Lit("x"), Rep(Cls(Space), 1, -1)>>),
     risk_level |-> Moderate,
     description |-> <<"M", "a", "k", "i", "n", "g", " ", "f", "i", "l", "e", "s", " ", "e",
        "x", "e", "c", "u", "t", "a", "b", "l", "e">>,
     shell_specific |-> None],
    \* 41. r"chmod\s+[0-7]{3,4}\s+"  (patterns.rs:276)
    \*    "Changing file permissions"
    [pattern |-> Cat(<<Text(<<"c", "h", "m", "o", "d">>), Rep(Cls(Space), 1, -1),
        Rep(Cls(Octal), 3, 4), Rep(Cls(Space), 1, -1)>>),
     risk_level |-> Moderate,
     description |-> <<"C", "h", "a", "n", "g", "i", "n", "g", " ", "f", "i", "l", "e", " ",
        "p", "e", "r", "m", "i", "s", "s", "i", "o", "n", "s">>,
     shell_specific |-> None],
    \* 42. r"chown\s+[^\s]+\s+"  (patterns.rs:282)
    \*    "Changing file ownership"
    [pattern |-> Cat(<<Text(<<"c", "h", "o", "w", "n">>), Rep(Cls(Space), 1, -1),
        Rep(NCls(Space), 1, -1), Rep(Cls(Space), 1, -1)>>),
     risk_level |-> Moderate,
     description |-> <<"C", "h", "a", "n", "g", "i", "n", "g", " ", "f", "i", "l", "e", " ",
        "o", "w", "n", "e", "r", "s", "h", "i", "p">>,
     shell_specific |-> None],
    \* 43. r"pip\s+install\s+--user"  (patterns.rs:289)
    \*    "Installing Python packages in user directory"
    [pattern |-> Cat(<<Text(<<"p", "i", "p">>), Rep(Cls(Space), 1, -1), Text(<<"i", "n",
        "s", "t", "a", "l", "l">>), Rep(Cls(Space), 1, -1), Text(<<"-", "-",
        "u", "s", "e", "r">>)>>),
     risk_level |-> Moderate,
     description |-> <<"I", "n", "s", "t", "a", "l", "l", "i", "n", "g", " ", "P", "y", "t",
        "h", "o", "n", " ", "p", "a", "c", "k", "a", "g", "e", "s", " ", "i",
        "n", " ", "u", "s", "e", "r", " ", "d", "i", "r", "e", "c", "t", "o",
        "r", "y">>,
     shell_specific |-> None],
    \* 44. r"del\s+/[fFsS]\s+"  (patterns.rs:296)
    \*    "Windows delete with force/subdirectory flags"
    [pattern |-> Cat(<<Text(<<"d", "e", "l">>), Rep(Cls(Space), 1, -1), Lit("/"),
        Cls({"f", "F", "s", "S"}), Rep(Cls(Space), 1, -1)>>),
     risk_level |-> Critical,
     description |-> <<"W", "i", "n", "d", "o", "w", "s", " ", "d", "e", "l", "e", "t", "e",
        " ", "w", "i", "t", "h", " ", "f", "o", "r", "c", "e", "/", "s", "u",
        "b", "d", "i", "r", "e", "c", "t", "o", "r", "y", " ", "f", "l", "a",
        "g", "s">>,
     shell_specific |-> None],
    \* 45. r"del\s+.*C:[/\\]"  (patterns.rs:302)
    \*    "Windows delete on C drive root"
    [pattern |-> Cat(<<Text(<<"d", "e", "l">>), Rep(Cls(Space), 1, -1), Rep(Dot, 0, -1),
        Text(<<"C", ":">>), Cls({"/", "\\"})>>),
     risk_level |-> Critical,
     description |-> <<"W", "i", "n", "d", "o", "w", "s", " ", "d", "e", "l", "e", "t", "e",
        " ", "o", "n", " ", "C", " ", "d", "r", "i", "v", "e", " ", "r", "o",
        "o", "t">>,
     shell_specific |-> None],
    \* 46. r"format\s+[A-Z]:"  (patterns.rs:309)
    \*    "Format disk drive"
    [pattern |-> Cat(<<Text(<<"f", "o", "r", "m", "a", "t">>), Rep(Cls(Space), 1, -1),
        Cls(Upper), Lit(":")>>),
     risk_level |-> Critical,
     description |-> <<"F", "o", "r", "m", "a", "t", " ", "d", "i", "s", "k", " ", "d", "r",
        "i", "v", "e">>,
     shell_specific |-> None],
    \* 47. r"docker\s+run\s+.*--privileged"  (patterns.rs:316)
    \*    "Docker container with full host access"
    [pattern |-> Cat(<<Text(<<"d", "o", "c", "k", "e", "r">>), Rep(Cls(Space), 1, -1),
        Text(<<"r", "u", "n">>), Rep(Cls(Space), 1, -1), Rep(Dot, 0, -1),
        Text(<<"-", "-", "p", "r", "i", "v", "i", "l", "e", "g", "e",
        "d">>)>>),
     risk_level |-> High,
     description |-> <<"D", "o", "c", "k", "e", "r", " ", "c", "o", "n", "t", "a", "i", "n",
        "e", "r", " ", "w", "i", "t", "h", " ", "f", "u", "l", "l", " ", "h",
        "o", "s", "t", " ", "a", "c", "c", "e", "s", "s">>,
     shell_specific |-> None],
    \* 48. r"ssh\s+[^\s]+@[^\s]+"  (patterns.rs:323)
    \*    "SSH connection to remote server"
    [pattern |-> Cat(<<Text(<<"s", "s", "h">>), Rep(Cls(Space), 1, -1), Rep(NCls(Space),
        1, -1), Lit("@"), Rep(NCls(Space), 1, -1)>>),
     risk_level |-> Moderate,
     description |-> <<"S", "S", "H", " ", "c", "o", "n", "n", "e", "c", "t", "i", "o", "n",
        " ", "t", "o", " ", "r", "e", "m", "o", "t", "e", " ", "s", "e", "r",
        "v", "e", "r">>,
     shell_specific |-> None],
    \* 49. r"scp\s+"  (patterns.rs:329)
    \*    "Secure copy to/from remote server"
    [pattern |-> Cat(<<Text(<<"s", "c", "p">>), Rep(Cls(Space), 1, -1)>>),
     risk_level |-> Moderate,
     description |-> <<"S", "e", "c", "u", "r", "e", " ", "c", "o", "p", "y", " ", "t", "o",
        "/", "f", "r", "o", "m", " ", "r", "e", "m", "o", "t", "e", " ", "s",
        "e", "r", "v", "e", "r">>,
     shell_specific |-> None],
    \* 50. r"kill\s+-9\s+\d+"  (patterns.rs:336)
    \*    "Force kill specific process by PID"
    [pattern |-> Cat(<<Text(<<"k", "i", "l", "l">>), Rep(Cls(Space), 1, -1), Text(<<"-",
        "9">>), Rep(Cls(Space), 1, -1), Rep(Cls(Digit), 1, -1)>>),
     risk_level |-> Moderate,
     description |-> <<"F", "o", "r", "c", "e", " ", "k", "i", "l", "l", " ", "s", "p", "e",
        "c", "i", "f", "i", "c", " ", "p", "r", "o", "c", "e", "s", "s", " ",
        "b", "y", " ", "P", "I", "D">>,
     shell_specific |-> None]
>>

\* Faulty variant of shell_filter: every pattern passes, whatever its scope.
shell_filter_any(shell_specific, shell) == TRUE

shell_filter(shell_specific, shell) ==
    shell_specific = None \/ shell_specific = Some(shell)

\* The initialiser of the COMPILED_PATTERNS static: every catalogue entry whose
\* regex compiles, as (regex, risk_level, description, shell_specific).
compile_catalogue ==
    LET ok == SelectSeq(DANGEROUS_PATTERNS, LAMBDA p : RegexNewOk(p.pattern))
    IN  [k \in 1..Len(ok) |->
            [regex |-> RegexNew(ok[k].pattern),
             risk_level |-> ok[k].risk_level,
             description |-> ok[k].description,
             shell_specific |-> ok[k].shell_specific]]

\* ------------------------------------------------------------------ matcher
\* str::matches(pat).count(): non-overlapping occurrences, left to right.
RECURSIVE matches_count(_, _)
matches_count(s, pat) ==
    IF Len(s) < Len(pat) THEN 0
    ELSE IF SubSeq(s, 1, Len(pat)) = pat
         THEN 1 + matches_count(SubSeq(s, Len(pat) + 1, Len(s)), pat)
         ELSE matches_count(Tail(s), pat)

\* Faulty variants of the two counts: the first subtracts every backslash,
\* the second forgets the escaped quotes.
single_quotes_less_backslashes(before) ==
    matches_count(before, <<"'">>) - matches_count(before, <<"\\">>)
double_quotes_all(before) == matches_count(before, <<"\"">>)

\* The two counts of lines 116-117 for the text before a match start.
single_quotes(before) ==
    matches_count(before, <<"'">>) - matches_count(before, <<"\\", "'">>)
double_quotes(before) ==
    matches_count(before, <<"\"">>) - matches_count(before, <<"\\", "\"">>)

\* Faulty variant of scan_matches: any match counts, quoted or not.
scan_matches_unquoted(command, ms, k) ==
    IF k > Len(ms) THEN "false" ELSE "true"

\* is_dangerous_in_context: "true" at the first match in executable context,
\* "false" when there is no match or every match is discarded, "panic" when a
\* usize subtraction of lines 116-117 goes below zero (builds with overflow
\* checks panic there).
RECURSIVE scan_matches(_, _, _)
scan_matches(command, ms, k) ==
    IF k > Len(ms) THEN "false"
    ELSE LET before == SubSeq(command, 1, ms[k][1])
             sq == single_quotes(before)
             dq == double_quotes(before)
         IN  IF sq < 0 \/ dq < 0 THEN "panic"
             ELSE IF sq % 2 = 1 \/ dq % 2 = 1
                  THEN scan_matches(command, ms, k + 1)
                  ELSE "true"

is_dangerous_in_context(command, pattern_regex) ==
    IF ~is_match(pattern_regex, command) THEN "false"
    ELSE scan_matches(command, find_iter(pattern_regex, command), 1)

\* ------------------------------------------------------------------ explanation
UPPER == <<"A", "B", "C", "D", "E", "F", "G", "H", "I", "J", "K", "L", "M",
           "N", "O", "P", "Q", "R", "S", "T", "U", "V", "W", "X", "Y", "Z">>
LOWER == <<"a", "b", "c", "d", "e", "f", "g", "h", "i", "j", "k", "l", "m",
           "n", "o", "p", "q", "r", "s", "t", "u", "v", "w", "x", "y", "z">>

to_lowercase(s) ==
    [i \in 1..Len(s) |->
        IF s[i] \in Upper
        THEN LOWER[CHOOSE k \in 1..Len(UPPER) : UPPER[k] = s[i]]
        ELSE s[i]]

contains(s, pat) ==
    \E i \in 0..(Len(s) - Len(pat)) : SubSeq(s, i + 1, i + Len(pat)) = pat

\* The keywords one matched description contributes (lines 213-236).
keywords_of(desc) ==
    LET lower == to_lowercase(desc)
    IN  (IF contains(lower, <<"d", "e", "l", "e", "t">>) THEN {"deletion"} ELSE {})
        \cup (IF contains(lower, <<"r", "e", "m", "o", "v">>) THEN {"removal"} ELSE {})
        \cup (IF contains(lower, <<"r", "e", "c", "u", "r", "s", "i", "v", "e">>)
              THEN {"recursive"} ELSE {})
        \cup (IF contains(lower, <<"p", "r", "i", "v", "i", "l", "e", "g", "e">>)
                 \/ contains(lower, <<"r", "o", "o", "t">>)
                 \/ contains(lower, <<"s", "u", "d", "o">>)
              THEN {"privilege escalation"} ELSE {})
        \cup (IF contains(lower, <<"n", "e", "t", "w", "o", "r", "k">>)
                 \/ contains(lower, <<"b", "a", "c", "k", "d", "o", "o", "r">>)
              THEN {"network"} ELSE {})
        \cup (IF contains(lower, <<"d", "i", "s", "k">>)
                 \/ contains(lower, <<"f", "o", "r", "m", "a", "t">>)
              THEN {"disk"} ELSE {})

\* The HashSet of line 242 holds the distinct keywords.
risk_keywords(matched) ==
    UNION {keywords_of(matched[i]) : i \in 1..Len(matched)}

\* Every order in which a HashSet may yield its elements.
Orderings(S) ==
    {seq \in [1..Cardinality(S) -> S] : \A a \in S : \E i \in DOMAIN seq : seq[i] = a}

\* ------------------------------------------------------------------ config
STRICT_MAX_LENGTH == 1000
MODERATE_MAX_LENGTH == 5000
PERMISSIVE_MAX_LENGTH == 10000
DEFAULT_MAX_LENGTH == 1000

SafetyConfig(level, max) ==
    [safety_level |-> level, max_command_length |-> max,
     custom_patterns |-> <<>>, allowlist_patterns |-> <<>>]

\* Faulty variant of strict: a length limit of a few bytes.
FEW_BYTES == 10
strict_few_bytes == SafetyConfig("Strict", FEW_BYTES)

strict == SafetyConfig("Strict", STRICT_MAX_LENGTH)
moderate == SafetyConfig("Moderate", MODERATE_MAX_LENGTH)
permissive == SafetyConfig("Permissive", PERMISSIVE_MAX_LENGTH)
default == SafetyConfig("Moderate", DEFAULT_MAX_LENGTH)

\* add_custom_pattern pushes the pattern whether or not its regex compiles,
\* and returns Err(PatternError) when it does not.
\* Faulty variant of add_custom_pattern: a pattern that does not compile is
\* not kept.
add_custom_pattern_dropping(config, pattern) ==
    IF RegexNewOk(pattern.pattern)
    THEN [config |-> [config EXCEPT !.custom_patterns = Append(@, pattern)],
          result |-> [tag |-> "Ok"]]
    ELSE [config |-> config,
          result |-> [tag |-> "Err", error |-> "PatternError",
                      pattern |-> pattern.pattern]]

add_custom_pattern(config, pattern) ==
    [config |-> [config EXCEPT !.custom_patterns = Append(@, pattern)],
     result |-> IF RegexNewOk(pattern.pattern)
                THEN [tag |-> "Ok"]
                ELSE [tag |-> "Err", error |-> "PatternError",
                      pattern |-> pattern.pattern]]

add_allowlist_pattern(config, pattern) ==
    [config EXCEPT !.allowlist_patterns = Append(@, pattern)]

\* ------------------------------------------------------------------ state
VARIABLES
    COMPILED_PATTERNS,  \* the process-wide static table of compiled builtins
    config,             \* the SafetyConfig the caller is building
    validator,          \* what SafetyValidator::new returned, once it was called
    call,               \* the result of a validation call the caller holds
    manager             \* the cache's ManifestManager, once one was constructed

vars == <<COMPILED_PATTERNS, config, validator, call, manager>>

\* References into the static table (its indices), in table order.
get_compiled_patterns_for_shell(shell) ==
    SelectSeq([k \in 1..Len(COMPILED_PATTERNS) |-> k],
              LAMBDA k : shell_filter(COMPILED_PATTERNS[k].shell_specific, shell))

\* ------------------------------------------------------------------ validator
\* Faulty variant of new: the custom patterns are checked before the length
\* limit.
new_patterns_first(cfg) ==
    IF \E i \in 1..Len(cfg.custom_patterns) :
          ~RegexNewOk(cfg.custom_patterns[i].pattern)
    THEN [tag |-> "Err", error |-> "PatternError",
          pattern |-> cfg.custom_patterns[
              CHOOSE i \in 1..Len(cfg.custom_patterns) :
                  ~RegexNewOk(cfg.custom_patterns[i].pattern)].pattern]
    ELSE IF cfg.max_command_length = 0
    THEN [tag |-> "Err", error |-> "InvalidConfig"]
    ELSE [tag |-> "Ok",
          value |-> [config |-> cfg,
                     patterns |-> cfg.custom_patterns,
                     compiled_patterns |->
                         [i \in 1..Len(cfg.custom_patterns) |->
                             [regex |-> RegexNew(cfg.custom_patterns[i].pattern),
                              risk_level |-> cfg.custom_patterns[i].risk_level,
                              description |-> cfg.custom_patterns[i].description]]]]

\* The first custom pattern whose regex does not compile, 0 when all do.
first_bad_pattern(custom_patterns) ==
    IF \A i \in 1..Len(custom_patterns) : RegexNewOk(custom_patterns[i].pattern)
    THEN 0
    ELSE CHOOSE i \in 1..Len(custom_patterns) :
            /\ ~RegexNewOk(custom_patterns[i].pattern)
            /\ \A j \in 1..(i - 1) : RegexNewOk(custom_patterns[j].pattern)

\* Faulty variant of compile_custom: the risk level is not carried over.
compile_custom_risk_lost(custom_patterns) ==
    [i \in 1..Len(custom_patterns) |->
        [regex |-> RegexNew(custom_patterns[i].pattern),
         risk_level |-> Moderate,
         description |-> custom_patterns[i].description]]

\* Lines 73-89: (regex, risk_level, description); the shell scope is dropped.
compile_custom(custom_patterns) ==
    [i \in 1..Len(custom_patterns) |->
        [regex |-> RegexNew(custom_patterns[i].pattern),
         risk_level |-> custom_patterns[i].risk_level,
         description |-> custom_patterns[i].description]]

new(cfg) ==
    IF cfg.max_command_length = 0
    THEN [tag |-> "Err", error |-> "InvalidConfig"]
    ELSE IF first_bad_pattern(cfg.custom_patterns) # 0
    THEN [tag |-> "Err", error |-> "PatternError",
          pattern |-> cfg.custom_patterns[
                          first_bad_pattern(cfg.custom_patterns)].pattern]
    ELSE [tag |-> "Ok",
          value |-> [config |-> cfg,
                     patterns |-> cfg.custom_patterns,
                     compiled_patterns |-> compile_custom(cfg.custom_patterns)]]

\* Confidence scores in hundredths.
CONFIDENCE_NO_MATCH == 95
CONFIDENCE_CERTAIN == 100

\* Lines 138-154.
length_rejection(v, command) ==
    [allowed |-> FALSE,
     risk_level |-> Moderate,
     explanation |-> [kind |-> "TooLong", max |-> v.config.max_command_length],
     warnings |-> <<[kind |-> "Length", len |-> StrLen(command),
                     max |-> v.config.max_command_length]>>,
     matched_patterns |-> <<>>,
     confidence_score |-> CONFIDENCE_CERTAIN]

\* Faulty variant of allowlist_hit: the loop ends at the first entry that
\* does not compile.
allowlist_hit_ending_at_invalid(v, command) ==
    LET al == v.config.allowlist_patterns
        hits == {i \in 1..Len(al) :
                    /\ \A j \in 1..i : RegexNewOk(al[j])
                    /\ is_match(RegexNew(al[i]), command)}
    IN  IF hits = {} THEN 0 ELSE CHOOSE i \in hits : \A j \in hits : i <= j

\* Lines 157-170: the first allowlist entry that compiles and matches, 0 if none.
allowlist_hit(v, command) ==
    LET al == v.config.allowlist_patterns
        hits == {i \in 1..Len(al) :
                    RegexNewOk(al[i]) /\ is_match(RegexNew(al[i]), command)}
    IN  IF hits = {} THEN 0 ELSE CHOOSE i \in hits : \A j \in hits : i <= j

allowlist_result(allow_pattern) ==
    [allowed |-> TRUE,
     risk_level |-> Safe,
     explanation |-> [kind |-> "Allowlisted"],
     warnings |-> <<>>,
     matched_patterns |-> <<allow_pattern>>,
     confidence_score |-> CONFIDENCE_CERTAIN]

\* The rows the two loops of lines 179-198 go through, in order: the builtin
\* rows refs points to, then the validator's own.
pattern_rows(v, refs) ==
    [k \in 1..Len(refs) |->
        [regex |-> COMPILED_PATTERNS[refs[k]].regex,
         risk_level |-> COMPILED_PATTERNS[refs[k]].risk_level,
         description |-> COMPILED_PATTERNS[refs[k]].description]]
    \o v.compiled_patterns

\* Faulty variant of absorb: the risk of the latest match replaces the
\* highest so far.
absorb_last_risk(acc, row, hit) ==
    CASE hit = "panic" -> [acc EXCEPT !.panicked = TRUE]
      [] hit = "true" ->
            [matched |-> Append(acc.matched, row.description),
             highest_risk |-> row.risk_level,
             warnings |-> Append(acc.warnings,
                                 [kind |-> "Pattern",
                                  risk_level |-> row.risk_level,
                                  description |-> row.description]),
             panicked |-> FALSE]
      [] OTHER -> acc

\* One turn of the loops of lines 179-198: what a row adds to the matched
\* descriptions, the highest risk and the warnings.
absorb(acc, row, hit) ==
    CASE hit = "panic" -> [acc EXCEPT !.panicked = TRUE]
      [] hit = "true" ->
            [matched |-> Append(acc.matched, row.description),
             highest_risk |-> IF row.risk_level > acc.highest_risk
                              THEN row.risk_level
                              ELSE acc.highest_risk,
             warnings |-> Append(acc.warnings,
                                 [kind |-> "Pattern",
                                  risk_level |-> row.risk_level,
                                  description |-> row.description]),
             panicked |-> FALSE]
      [] OTHER -> acc

RECURSIVE check_patterns(_, _, _, _)
check_patterns(command, rows, k, acc) ==
    IF k > Len(rows) \/ acc.panicked THEN acc
    ELSE check_patterns(command, rows, k + 1,
            absorb(acc, rows[k], is_dangerous_in_context(command, rows[k].regex)))

\* Faulty variant of policy_allowed: whatever is not blocked is allowed.
policy_allowed_unless_blocked(highest_risk, safety_level) ==
    ~is_blocked(highest_risk, safety_level)

policy_allowed(highest_risk, safety_level) ==
    LET requires_confirm == requires_confirmation(highest_risk, safety_level)
        blocked == is_blocked(highest_risk, safety_level)
    IN  ~blocked /\ ~requires_confirm

\* Lines 207-252, one value per order the HashSet may yield the keywords in.
explanations(matched, highest_risk) ==
    IF matched = <<>> THEN {[kind |-> "NoDanger"]}
    ELSE {[kind |-> "Detected", count |-> Len(matched), risk_level |-> highest_risk,
           risk_types |-> order] : order \in Orderings(risk_keywords(matched))}

\* Faulty variant of confidence: certain also when nothing matched.
confidence_always_certain(matched) ==
    IF matched = <<>> THEN CONFIDENCE_CERTAIN ELSE CONFIDENCE_CERTAIN

confidence(matched) ==
    IF matched = <<>> THEN CONFIDENCE_NO_MATCH ELSE CONFIDENCE_CERTAIN

\* What a call that evaluated no danger pattern leaves in evaluated.
NothingEvaluated == [builtin |-> <<>>, custom |-> <<>>]

\* validate_command: the outcomes a call can have.  evaluated is bookkeeping,
\* not part of the returned value: the builtin rows (as indices into
\* COMPILED_PATTERNS) and the custom rows (as indices into compiled_patterns)
\* that went through is_dangerous_in_context.
pattern_outcomes(v, acc, evaluated) ==
    IF acc.panicked THEN {[tag |-> "Panic", evaluated |-> evaluated]}
    ELSE {[tag |-> "Ok",
           value |-> [allowed |-> policy_allowed(acc.highest_risk,
                                                 v.config.safety_level),
                      risk_level |-> acc.highest_risk,
                      explanation |-> e,
                      warnings |-> acc.warnings,
                      matched_patterns |-> acc.matched,
                      confidence_score |-> confidence(acc.matched)],
           evaluated |-> evaluated] :
          e \in explanations(acc.matched, acc.highest_risk)}

pattern_path(v, command, built_in_patterns) ==
    pattern_outcomes(v,
        check_patterns(command, pattern_rows(v, built_in_patterns), 1,
                       [matched |-> <<>>, highest_risk |-> Safe,
                        warnings |-> <<>>, panicked |-> FALSE]),
        [builtin |-> built_in_patterns,
         custom |-> [k \in 1..Len(v.compiled_patterns) |-> k]])

\* Faulty variant of allowlist_path: the allowlist is not consulted.
allowlist_path_skipped(v, command, shell, hit) ==
    pattern_path(v, command, get_compiled_patterns_for_shell(shell))

allowlist_path(v, command, shell, hit) ==
    IF hit # 0
    THEN {[tag |-> "Ok",
           value |-> allowlist_result(v.config.allowlist_patterns[hit]),
           evaluated |-> NothingEvaluated]}
    ELSE pattern_path(v, command, get_compiled_patterns_for_shell(shell))

\* Faulty variant of validate_command: the allowlist is consulted before the
\* length limit.
validate_command_allowlist_first(v, command, shell) ==
    IF allowlist_hit(v, command) = 0
       /\ StrLen(command) > v.config.max_command_length
    THEN {[tag |-> "Ok", value |-> length_rejection(v, command),
           evaluated |-> NothingEvaluated]}
    ELSE allowlist_path(v, command, shell, allowlist_hit(v, command))

validate_command(v, command, shell) ==
    IF StrLen(command) > v.config.max_command_length
    THEN {[tag |-> "Ok", value |-> length_rejection(v, command),
           evaluated |-> NothingEvaluated]}
    ELSE allowlist_path(v, command, shell, allowlist_hit(v, command))

\* validate_batch: one validate_command per command, in order; an Err or a
\* panic of any call ends the batch.
RECURSIVE validate_batch(_, _, _)
validate_batch(v, commands, shell) ==
    IF commands = <<>> THEN {[tag |-> "Ok", value |-> <<>>]}
    ELSE LET firsts == validate_command(v, Head(commands), shell)
             rests == validate_batch(v, Tail(commands), shell)
         IN  {IF f.tag # "Ok" THEN [tag |-> f.tag]
              ELSE IF r.tag # "Ok" THEN [tag |-> r.tag]
              ELSE [tag |-> "Ok", value |-> <<f.value>> \o r.value] :
              f \in firsts, r \in rests}

\* ------------------------------------------------------------------ inputs
\* Custom patterns a caller may add: the two of the contract tests, one of
\* them scoped to a single shell, and the non-compiling one.
DeployPattern ==
    [pattern |-> Cat(<<Text(<<"d", "e", "p", "l", "o", "y">>), Rep(Dot, 0, -1),
        Text(<<"p", "r", "o", "d", "u", "c", "t", "i", "o", "n">>)>>),
     risk_level |-> High,
     description |-> <<"P", "r", "o", "d", "u", "c", "t", "i", "o", "n", " ", "d",
        "e", "p", "l", "o", "y", "m", "e", "n", "t", " ", "r", "e", "q", "u", "i",
        "r", "e", "s", " ", "a", "p", "p", "r", "o", "v", "a", "l">>,
     shell_specific |-> None]

ZshPushPattern ==
    [pattern |-> Cat(<<Text(<<"g", "i", "t">>), Rep(Cls(Space), 1, -1),
        Text(<<"p", "u", "s", "h">>), Rep(Cls(Space), 1, -1),
        Text(<<"-", "-", "f", "o", "r", "c", "e">>)>>),
     risk_level |-> Critical,
     description |-> <<"F", "o", "r", "c", "e", " ", "p", "u", "s", "h", " ", "c",
        "a", "n", " ", "o", "v", "e", "r", "w", "r", "i", "t", "e", " ", "r", "e",
        "m", "o", "t", "e", " ", "h", "i", "s", "t", "o", "r", "y">>,
     shell_specific |-> Some("Zsh")]

BadPattern ==
    [pattern |-> BadRegex,
     risk_level |-> High,
     description |-> <<"B", "a", "d", " ", "p", "a", "t", "t", "e", "r", "n">>,
     shell_specific |-> None]

\* The lists of custom patterns a config is built up to.
CustomLists ==
    {<<>>, <<DeployPattern>>, <<BadPattern>>,
     <<DeployPattern, ZshPushPattern>>, <<DeployPattern, BadPattern>>}

\* r"rm -rf /tmp/myapp_\d+", the allowlist entry of the contract test.
TmpAllow ==
    Cat(<<Text(<<"r", "m", " ", "-", "r", "f", " ", "/", "t", "m", "p", "/", "m",
        "y", "a", "p", "p", "_">>), Rep(Cls(Digit), 1, -1)>>)

AllowLists == {<<>>, <<BadRegex>>, <<BadRegex, TmpAllow>>}

\* A length limit close to the commands' lengths, besides the presets' and 0.
ShortLimit == 8
LengthLimits == {0, ShortLimit}

ScenarioCommands == {
    <<>>,
    \* rm -rf /
    <<"r", "m", " ", "-", "r", "f", " ", "/">>,
    \* echo 'rm -rf /' > script.sh
    <<"e", "c", "h", "o", " ", "'", "r", "m", " ", "-", "r", "f", " ", "/", "'",
      " ", ">", " ", "s", "c", "r", "i", "p", "t", ".", "s", "h">>,
    \* sudo rm -rf /
    <<"s", "u", "d", "o", " ", "r", "m", " ", "-", "r", "f", " ", "/">>,
    \* rm -f *.tmp
    <<"r", "m", " ", "-", "f", " ", "*", ".", "t", "m", "p">>,
    \* deploy app to production
    <<"d", "e", "p", "l", "o", "y", " ", "a", "p", "p", " ", "t", "o", " ", "p",
      "r", "o", "d", "u", "c", "t", "i", "o", "n">>,
    \* rm -rf /tmp/myapp_123
    <<"r", "m", " ", "-", "r", "f", " ", "/", "t", "m", "p", "/", "m", "y", "a",
      "p", "p", "_", "1", "2", "3">>,
    \* git push --force
    <<"g", "i", "t", " ", "p", "u", "s", "h", " ", "-", "-", "f", "o", "r", "c",
      "e">>,
    \* :(){:|:&};:
    <<":", "(", ")", "{", ":", "|", ":", "&", "}", ";", ":">>,
    \* Set-ExecutionPolicy Unrestricted
    <<"S", "e", "t", "-", "E", "x", "e", "c", "u", "t", "i", "o", "n", "P", "o",
      "l", "i", "c", "y", " ", "U", "n", "r", "e", "s", "t", "r", "i", "c", "t",
      "e", "d">>,
    \* cat caf<e-acute>: 8 characters, 9 bytes
    <<"c", "a", "t", " ", "c", "a", "f", "U+00E9">>,
    \* rm /
    <<"r", "m", " ", "/">>,
    \* chmod 777 /
    <<"c", "h", "m", "o", "d", " ", "7", "7", "7", " ", "/">>,
    \* scp a b
    <<"s", "c", "p", " ", "a", " ", "b">>,
    \* >/etc/x
    <<">", "/", "e", "t", "c", "/", "x">>,
    \* scp deploy production
    <<"s", "c", "p", " ", "d", "e", "p", "l", "o", "y", " ", "p", "r", "o", "d",
      "u", "c", "t", "i", "o", "n">>,
    \* \'|&|
    <<"\\", "'", "|", "&", "|">>,
    \* \"|&|
    <<"\\", "\"", "|", "&", "|">>,
    \* '|&|'|&|
    <<"'", "|", "&", "|", "'", "|", "&", "|">>,
    \* "\"|&|
    <<"\"", "\\", "\"", "|", "&", "|">>}

\* Short commands put together from quote characters, the backslash and
\* |&|, which matches the Critical builtin pattern 7.
Fragments == {
    <<"'">>, <<"\"">>, <<"\\">>,
    <<"|", "&", "|">>}

MaxFrags == 2

FragCommands[n \in 0..MaxFrags] ==
    IF n = 0 THEN {<<>>}
    ELSE FragCommands[n - 1]
         \cup {c \o f : c \in FragCommands[n - 1], f \in Fragments}

\* The shells the calls on these and the batch calls are made with; the
\* calls on ScenarioCommands are made with every shell.
FewShells == {"Bash", "Unknown"}

\* validate_batch is called with lists of at most MaxBatch of these.
BatchPool == {
    \* chmod 777 /
    <<"c", "h", "m", "o", "d", " ", "7", "7", "7", " ", "/">>,
    \* 'rm /
    <<"'", "r", "m", " ", "/">>}

MaxBatch == 2

BatchesUpTo[n \in 0..MaxBatch] ==
    IF n = 0 THEN {<<>>}
    ELSE BatchesUpTo[n - 1]
         \cup {Append(b, c) : b \in BatchesUpTo[n - 1], c \in BatchPool}

Batches == BatchesUpTo[MaxBatch]

\* ------------------------------------------------------------------ actions
Unbuilt == [tag |-> "Unbuilt"]
NoCall == [op |-> "none"]
NoManager == [tag |-> "NoManager"]

Init ==
    /\ COMPILED_PATTERNS = compile_catalogue
    /\ config \in {strict, moderate, permissive}
    /\ validator = Unbuilt
    /\ call = NoCall
    /\ manager = NoManager

\* config.max_command_length = n (the field is public).
SetMaxCommandLength(n) ==
    /\ validator = Unbuilt
    /\ config.max_command_length # n
    /\ config' = [config EXCEPT !.max_command_length = n]
    /\ UNCHANGED <<manager, COMPILED_PATTERNS, validator, call>>

AddCustomPattern(p) ==
    /\ validator = Unbuilt
    /\ Append(config.custom_patterns, p) \in CustomLists
    /\ config' = add_custom_pattern(config, p).config
    /\ UNCHANGED <<manager, COMPILED_PATTERNS, validator, call>>

AddAllowlistPattern(p) ==
    /\ validator = Unbuilt
    /\ Append(config.allowlist_patterns, p) \in AllowLists
    /\ config' = add_allowlist_pattern(config, p)
    /\ UNCHANGED <<manager, COMPILED_PATTERNS, validator, call>>

\* SafetyValidator::new(config) takes the config by value.
New ==
    /\ validator = Unbuilt
    /\ validator' = new(config)
    /\ UNCHANGED <<manager, COMPILED_PATTERNS, config, call>>

\* Faulty variant of ValidateCommand: the call drains the validator's compiled
\* custom patterns while it goes through them.
ValidateCommand_draining(command, shell) ==
    /\ validator.tag = "Ok"
    /\ call = NoCall
    /\ \E out \in validate_command(validator.value, command, shell) :
          call' = [op |-> "validate_command", command |-> command,
                   shell |-> shell, out |-> out]
    /\ validator' = [validator EXCEPT !.value.compiled_patterns = <<>>]
    /\ UNCHANGED <<manager, COMPILED_PATTERNS, config>>

\* A call is made when the caller holds no result of an earlier one.
ValidateCommand(command, shell) ==
    /\ validator.tag = "Ok"
    /\ call = NoCall
    /\ \E out \in validate_command(validator.value, command, shell) :
          call' = [op |-> "validate_command", command |-> command,
                   shell |-> shell, out |-> out]
    /\ UNCHANGED <<manager, COMPILED_PATTERNS, config, validator>>

ValidateBatch(commands, shell) ==
    /\ validator.tag = "Ok"
    /\ call = NoCall
    /\ \E out \in validate_batch(validator.value, commands, shell) :
          call' = [op |-> "validate_batch", commands |-> commands,
                   shell |-> shell, out |-> out]
    /\ UNCHANGED <<manager, COMPILED_PATTERNS, config, validator>>

\* The caller drops the result it holds; the validator is unaffected.
DropResult ==
    /\ call # NoCall
    /\ call' = NoCall
    /\ UNCHANGED <<manager, COMPILED_PATTERNS, config, validator>>

Next ==
    \/ \E n \in LengthLimits : SetMaxCommandLength(n)
    \/ \E p \in {DeployPattern, ZshPushPattern, BadPattern} : AddCustomPattern(p)
    \/ \E p \in {TmpAllow, BadRegex} : AddAllowlistPattern(p)
    \/ New
    \/ \E command \in ScenarioCommands, shell \in ShellTypes :
          ValidateCommand(command, shell)
    \/ \E command \in FragCommands[MaxFrags], shell \in FewShells :
          ValidateCommand(command, shell)
    \/ \E commands \in Batches, shell \in FewShells :
          ValidateBatch(commands, shell)
    \/ DropResult

Spec == Init /\ [][Next]_vars

\* ------------------------------------------------------------------ properties
\* Vocabulary of the properties below, all about the call the caller holds the
\* result of.
Range(seq) == {seq[i] : i \in 1..Len(seq)}

MaxOf(S) == CHOOSE m \in S : \A x \in S : x <= m

CommandCall == call.op = "validate_command"

WithinLength ==
    StrLen(call.command) <= validator.value.config.max_command_length

\* Some allowlist entry compiles and matches the command.
Allowlisted ==
    \E i \in 1..Len(validator.value.config.allowlist_patterns) :
        /\ RegexNewOk(validator.value.config.allowlist_patterns[i])
        /\ is_match(RegexNew(validator.value.config.allowlist_patterns[i]),
                    call.command)

\* The call went on to the danger patterns and returned.
PatternPath ==
    CommandCall /\ WithinLength /\ ~Allowlisted /\ call.out.tag = "Ok"

\* The quotes q of before that no backslash immediately precedes.
UnescapedQuotes(before, q) ==
    Cardinality({i \in 1..Len(before) :
                    before[i] = q /\ (i = 1 \/ before[i - 1] # "\\")})

\* The match m of a regex in command is in executable context.
LiveAt(command, m) ==
    /\ UnescapedQuotes(SubSeq(command, 1, m[1]), "'") % 2 = 0
    /\ UnescapedQuotes(SubSeq(command, 1, m[1]), "\"") % 2 = 0

LiveIn(command, ms) == \E k \in 1..Len(ms) : LiveAt(command, ms[k])

\* Some occurrence (a match find_iter yields) of re in command is live.
LiveOccurrence(re, command) == LiveIn(command, find_iter(re, command))

\* The builtin rows a call with this shell may use, by the scope filter.
ScopedBuiltins(shell) ==
    {k \in 1..Len(COMPILED_PATTERNS) :
        \/ COMPILED_PATTERNS[k].shell_specific = None
        \/ COMPILED_PATTERNS[k].shell_specific = Some(shell)}

\* A critical builtin pattern open to the call's shell has a live match.
CriticalBuiltinLive ==
    \E k \in ScopedBuiltins(call.shell) :
        /\ COMPILED_PATTERNS[k].risk_level = Critical
        /\ is_dangerous_in_context(call.command, COMPILED_PATTERNS[k].regex) = "true"

\* C1: a command within the length limit that matches an allowlist entry is
\* allowed, Safe, with confidence 1.0, under every safety level and shell,
\* whatever danger pattern it also matches; no danger pattern is evaluated.
C1_AllowlistPrecedence ==
    (CommandCall /\ WithinLength /\ Allowlisted) =>
        /\ call.out.tag = "Ok"
        /\ call.out.value.allowed = TRUE
        /\ call.out.value.risk_level = Safe
        /\ call.out.value.confidence_score = CONFIDENCE_CERTAIN
        /\ call.out.evaluated = NothingEvaluated

\* An allowlisted command under Strict for which a Critical builtin is live.
C1_Witness ==
    /\ CommandCall /\ WithinLength /\ Allowlisted
    /\ validator.value.config.safety_level = "Strict"
    /\ CriticalBuiltinLive
    /\ call.out.value.allowed

\* C2: the checks run in the order length, allowlist, danger patterns: an
\* over-long command is refused as Moderate with confidence 1.0 and no matched
\* pattern even when it is allowlisted or matches a Critical pattern, and an
\* allowlisted command within the limit returns before any danger pattern.
C2_CheckOrder ==
    /\ (CommandCall /\ ~WithinLength) =>
          /\ call.out.tag = "Ok"
          /\ call.out.value.allowed = FALSE
          /\ call.out.value.risk_level = Moderate
          /\ call.out.value.confidence_score = CONFIDENCE_CERTAIN
          /\ call.out.value.matched_patterns = <<>>
          /\ call.out.evaluated = NothingEvaluated
    /\ (CommandCall /\ WithinLength /\ Allowlisted) =>
          /\ call.out.evaluated = NothingEvaluated
          /\ Len(call.out.value.matched_patterns) = 1
          /\ call.out.value.matched_patterns[1]
                \in Range(validator.value.config.allowlist_patterns)

\* An over-long command that is allowlisted and matches a Critical builtin.
C2_Witness ==
    /\ CommandCall /\ ~WithinLength /\ Allowlisted
    /\ CriticalBuiltinLive
    /\ call.out.value.risk_level = Moderate
    /\ ~call.out.value.allowed

\* C3: on the pattern path allowed = ~is_blocked /\ ~requires_confirmation,
\* with Strict confirming {Moderate, High, Critical} and blocking {High,
\* Critical}, Moderate confirming {High, Critical} and blocking {Critical},
\* Permissive confirming {Critical} and blocking nothing; so allowed holds
\* exactly for Safe under Strict, up to Moderate under Moderate and up to High
\* under Permissive.
C3_PolicyTable ==
    /\ \A r \in RiskLevels :
          /\ requires_confirmation(r, "Strict") <=> r \in {Moderate, High, Critical}
          /\ is_blocked(r, "Strict") <=> r \in {High, Critical}
          /\ requires_confirmation(r, "Moderate") <=> r \in {High, Critical}
          /\ is_blocked(r, "Moderate") <=> r = Critical
          /\ requires_confirmation(r, "Permissive") <=> r = Critical
          /\ ~is_blocked(r, "Permissive")
    /\ PatternPath =>
          /\ call.out.value.allowed =
                (/\ ~is_blocked(call.out.value.risk_level,
                                validator.value.config.safety_level)
                 /\ ~requires_confirmation(call.out.value.risk_level,
                                           validator.value.config.safety_level))
          /\ call.out.value.allowed =
                (CASE validator.value.config.safety_level = "Strict" ->
                        call.out.value.risk_level = Safe
                   [] validator.value.config.safety_level = "Moderate" ->
                        call.out.value.risk_level \in {Safe, Moderate}
                   [] validator.value.config.safety_level = "Permissive" ->
                        call.out.value.risk_level \in {Safe, Moderate, High})

\* A Moderate-risk command refused under Strict.
C3_Witness ==
    /\ PatternPath
    /\ validator.value.config.safety_level = "Strict"
    /\ call.out.value.risk_level = Moderate
    /\ ~call.out.value.allowed

\* The rows a call went through, from its bookkeeping: builtin, then custom.
EvaluatedBuiltinRows ==
    [k \in 1..Len(call.out.evaluated.builtin) |->
        COMPILED_PATTERNS[call.out.evaluated.builtin[k]]]

EvaluatedCustomRows ==
    [k \in 1..Len(call.out.evaluated.custom) |->
        validator.value.compiled_patterns[call.out.evaluated.custom[k]]]

\* The risk levels of the evaluated rows that have a live match.
LiveRisks ==
    {EvaluatedBuiltinRows[k].risk_level : k \in
        {k \in 1..Len(EvaluatedBuiltinRows) :
            is_dangerous_in_context(call.command,
                                    EvaluatedBuiltinRows[k].regex) = "true"}}
    \cup
    {EvaluatedCustomRows[k].risk_level : k \in
        {k \in 1..Len(EvaluatedCustomRows) :
            is_dangerous_in_context(call.command,
                                    EvaluatedCustomRows[k].regex) = "true"}}

\* C4: on the pattern path the result's risk level is the greatest, in the
\* order Safe < Moderate < High < Critical, of the risk levels of the evaluated
\* patterns, builtin and custom, that have a live match; Safe when none has.
C4_HighestRisk ==
    /\ Safe < Moderate /\ Moderate < High /\ High < Critical
    /\ PatternPath =>
          call.out.value.risk_level = MaxOf(LiveRisks \cup {Safe})

\* A command with live matches of differing risk: the higher one governs.
C4_Witness ==
    /\ PatternPath
    /\ Cardinality(LiveRisks) >= 2
    /\ call.out.value.risk_level = MaxOf(LiveRisks)
    /\ \E k \in 1..Len(EvaluatedCustomRows) :
          is_dangerous_in_context(call.command,
                                  EvaluatedCustomRows[k].regex) = "true"

\* The descriptions of the rows that have a live occurrence, in row order.
LiveDescriptions(rows) ==
    LET live == SelectSeq(rows,
                    LAMBDA row : LiveOccurrence(row.regex, call.command))
    IN  [k \in 1..Len(live) |-> live[k].description]

\* C5: a pattern counts as matched exactly when one of its occurrences in the
\* command starts where the text before it holds an even number of single
\* quotes and an even number of double quotes, counting only the quotes that no
\* backslash immediately precedes; an occurrence with an odd count is discarded.
C5_LiveOccurrence ==
    PatternPath =>
        call.out.value.matched_patterns =
            LiveDescriptions(EvaluatedBuiltinRows \o EvaluatedCustomRows)

\* A pattern whose first occurrence is discarded and whose second one is live.
C5_Witness ==
    /\ PatternPath
    /\ \E k \in 1..Len(EvaluatedBuiltinRows) :
          /\ Len(find_iter(EvaluatedBuiltinRows[k].regex, call.command)) = 2
          /\ ~LiveAt(call.command,
                     find_iter(EvaluatedBuiltinRows[k].regex, call.command)[1])
          /\ LiveAt(call.command,
                    find_iter(EvaluatedBuiltinRows[k].regex, call.command)[2])
          /\ EvaluatedBuiltinRows[k].description
                \in Range(call.out.value.matched_patterns)

EchoRmScript ==
    <<"e", "c", "h", "o", " ", "'", "r", "m", " ", "-", "r", "f", " ", "/", "'",
      " ", ">", " ", "s", "c", "r", "i", "p", "t", ".", "s", "h">>

RmRoot == <<"r", "m", " ", "-", "r", "f", " ", "/">>

\* C6: with the builtin catalogue, echo 'rm -rf /' > script.sh is not Critical,
\* every occurrence of a Critical pattern in it starting inside an open
\* single-quoted literal, while rm -rf / alone is Critical and is refused under
\* Strict and under Moderate.
C6_QuoteSuppression ==
    /\ (CommandCall /\ call.command = EchoRmScript) =>
          /\ call.out.tag = "Ok"
          /\ call.out.value.risk_level # Critical
          /\ \A k \in 1..Len(COMPILED_PATTERNS) :
                COMPILED_PATTERNS[k].risk_level = Critical =>
                    \A m \in Range(find_iter(COMPILED_PATTERNS[k].regex,
                                             EchoRmScript)) :
                        UnescapedQuotes(SubSeq(EchoRmScript, 1, m[1]), "'") % 2 = 1
    /\ (CommandCall /\ call.command = RmRoot /\ WithinLength) =>
          /\ call.out.tag = "Ok"
          /\ call.out.value.risk_level = Critical
          /\ validator.value.config.safety_level \in {"Strict", "Moderate"} =>
                ~call.out.value.allowed

\* The quoted rm went through the patterns, the first of which occurs in it,
\* and came out Safe.
C6_Witness ==
    /\ PatternPath
    /\ call.command = EchoRmScript
    /\ is_match(COMPILED_PATTERNS[1].regex, EchoRmScript)
    /\ call.out.value.risk_level = Safe
    /\ call.out.value.allowed

\* The descriptions of the builtin rows open to the call's shell that have a
\* live match, in table order.
LiveBuiltinDescriptions ==
    LET live == SelectSeq(COMPILED_PATTERNS,
                    LAMBDA row :
                        /\ row.shell_specific \in {None, Some(call.shell)}
                        /\ is_dangerous_in_context(call.command, row.regex) = "true")
    IN  [k \in 1..Len(live) |-> live[k].description]

\* The descriptions of the custom patterns, of any scope or only of those open
\* to the call's shell, that have a live match, in configuration order.
LiveCustomDescriptions(scoped) ==
    LET live == SelectSeq(validator.value.patterns,
                    LAMBDA p :
                        /\ scoped => p.shell_specific \in {None, Some(call.shell)}
                        /\ is_dangerous_in_context(call.command,
                                                   RegexNew(p.pattern)) = "true")
    IN  [k \in 1..Len(live) |-> live[k].description]

\* C7: custom patterns go through the shell-scope filter of the builtin ones: a
\* custom pattern scoped to a shell contributes a match only to calls made with
\* that shell.
C7_CustomPatternsScoped ==
    PatternPath =>
        call.out.value.matched_patterns =
            LiveBuiltinDescriptions \o LiveCustomDescriptions(TRUE)

\* A call made with Bash that a custom pattern scoped to Zsh contributes to.
C7_ScopedCustomFires ==
    /\ PatternPath
    /\ call.shell = "Bash"
    /\ \E i \in 1..Len(validator.value.patterns) :
          /\ validator.value.patterns[i].shell_specific = Some("Zsh")
          /\ validator.value.patterns[i].description
                \in Range(call.out.value.matched_patterns)
          /\ call.out.value.risk_level
                = validator.value.patterns[i].risk_level

\* C8: a builtin pattern scoped to a shell is evaluated only by calls made with
\* exactly that shell, and an unscoped builtin pattern by calls with any shell,
\* Unknown included.
C8_BuiltinPatternsScoped ==
    PatternPath =>
        /\ \A k \in 1..Len(COMPILED_PATTERNS) :
              k \in Range(call.out.evaluated.builtin) <=>
                  \/ COMPILED_PATTERNS[k].shell_specific = None
                  \/ COMPILED_PATTERNS[k].shell_specific = Some(call.shell)
        /\ SubSeq(call.out.value.matched_patterns, 1,
                  Len(call.out.value.matched_patterns)
                      - Len(LiveCustomDescriptions(FALSE)))
              = LiveBuiltinDescriptions

\* The fork bomb under a shell other than Bash: the Bash-scoped pattern that
\* matches it is left out and nothing is matched.
C8_Witness ==
    /\ PatternPath
    /\ call.shell = "Unknown"
    /\ call.out.value.matched_patterns = <<>>
    /\ \E k \in 1..Len(COMPILED_PATTERNS) :
          /\ COMPILED_PATTERNS[k].shell_specific = Some("Bash")
          /\ is_dangerous_in_context(call.command,
                                     COMPILED_PATTERNS[k].regex) = "true"
          /\ k \notin Range(call.out.evaluated.builtin)

\* Some custom pattern of the configuration does not compile.
SomeCustomFails ==
    \E i \in 1..Len(config.custom_patterns) :
        ~RegexNewOk(config.custom_patterns[i].pattern)

\* C9: new returns Err(InvalidConfig) whenever max_command_length is 0,
\* otherwise Err(PatternError) naming the source of a custom pattern that does
\* not compile when there is one, and a validator only when the length limit is
\* positive and every custom pattern compiles.
C9_NewValidates ==
    validator # Unbuilt =>
        /\ config.max_command_length = 0 =>
              validator = [tag |-> "Err", error |-> "InvalidConfig"]
        /\ (config.max_command_length # 0 /\ SomeCustomFails) =>
              /\ validator.tag = "Err"
              /\ validator.error = "PatternError"
              /\ \E i \in 1..Len(config.custom_patterns) :
                    /\ ~RegexNewOk(config.custom_patterns[i].pattern)
                    /\ validator.pattern = config.custom_patterns[i].pattern
        /\ validator.tag = "Ok" <=>
              (config.max_command_length > 0 /\ ~SomeCustomFails)
        /\ validator.tag = "Ok" =>
              /\ validator.value.config = config
              /\ Len(validator.value.compiled_patterns)
                    = Len(config.custom_patterns)

\* A zero length limit together with a pattern that does not compile.
C9_Witness ==
    /\ validator # Unbuilt
    /\ config.max_command_length = 0
    /\ SomeCustomFails
    /\ validator.error = "InvalidConfig"

\* C10: every call of validate_command and of validate_batch on a constructed
\* validator returns Ok, whatever the command and the shell: no Err and no
\* panic, the length rejection and the allowlist return being Ok results too.
C10_CallsReturnOk ==
    call # NoCall =>
        /\ validator.tag = "Ok"
        /\ call.out.tag = "Ok"
        /\ call.op = "validate_batch" =>
              Len(call.out.value) = Len(call.commands)

\* A command in which a backslash precedes a quote, with a live match.
C10_Witness ==
    /\ PatternPath
    /\ \E i \in 1..(Len(call.command) - 1) :
          call.command[i] = "\\" /\ call.command[i + 1] \in {"'", "\""}
    /\ call.out.value.matched_patterns # <<>>

\* The fields of two results other than the explanation agree.
SameButExplanation(a, b) ==
    /\ a.allowed = b.allowed
    /\ a.risk_level = b.risk_level
    /\ a.warnings = b.warnings
    /\ a.matched_patterns = b.matched_patterns
    /\ a.confidence_score = b.confidence_score

\* C11: two validate_command calls with the same validator, command and shell
\* return results that are identical in every field: whatever the held call
\* returned is what any other such call returns.
C11_Determinism ==
    CommandCall =>
        \A o \in validate_command(validator.value, call.command, call.shell) :
            /\ o.tag = call.out.tag
            /\ o.value = call.out.value

\* A call whose repetition can return another explanation, every other field
\* being the same.
C11_ExplanationDiffers ==
    /\ CommandCall
    /\ \E o \in validate_command(validator.value, call.command, call.shell) :
          /\ o.value.explanation # call.out.value.explanation
          /\ o.value.explanation.kind = "Detected"
          /\ Range(o.value.explanation.risk_types)
                = Range(call.out.value.explanation.risk_types)
          /\ SameButExplanation(o.value, call.out.value)

BatchCall == call.op = "validate_batch"

\* C12: validate_batch returns one result per command, in order, the i-th
\* being the result a validate_command call of its own on the i-th command
\* returns.
C12_BatchEqualsSingle ==
    BatchCall =>
        /\ call.out.tag = "Ok"
        /\ Len(call.out.value) = Len(call.commands)
        /\ \A i \in 1..Len(call.commands) :
              \A o \in validate_command(validator.value, call.commands[i],
                                        call.shell) :
                  o.tag = "Ok" /\ o.value = call.out.value[i]

\* A batch one of whose results differs, in the explanation only, from a
\* result the call on that command alone can return.
C12_BatchExplanationDiffers ==
    /\ BatchCall
    /\ Len(call.out.value) = Len(call.commands)
    /\ \E i \in 1..Len(call.commands) :
          \E o \in validate_command(validator.value, call.commands[i],
                                    call.shell) :
              /\ o.value.explanation # call.out.value[i].explanation
              /\ SameButExplanation(o.value, call.out.value[i])

\* The held result is one the same call returns on the validator as it is now.
StillReturned ==
    /\ CommandCall =>
          call.out \in validate_command(validator.value, call.command, call.shell)
    /\ BatchCall =>
          call.out \in validate_batch(validator.value, call.commands, call.shell)

\* C14: validate_command and validate_batch leave the validator's config, its
\* compiled custom patterns and the builtin pattern table as they were, so that
\* a call made after other calls returns what it returns without them.
C14_CallsChangeNothing ==
    /\ [][call' # call =>
             /\ validator' = validator
             /\ config' = config
             /\ COMPILED_PATTERNS' = COMPILED_PATTERNS]_vars
    /\ [](validator # Unbuilt => validator = new(config))
    /\ []StillReturned

\* A held result of a validator that has custom patterns and an allowlist and
\* is still what new made of the config.
C14_Witness ==
    /\ call # NoCall
    /\ validator = new(config)
    /\ validator.value.compiled_patterns # <<>>
    /\ validator.value.config.allowlist_patterns # <<>>
    /\ COMPILED_PATTERNS = compile_catalogue

\* The length check refused the held call's command.
LengthRejected ==
    /\ call.out.tag = "Ok"
    /\ call.out.value.explanation.kind = "TooLong"

\* C15: a command of exactly max_command_length characters passes the length
\* check, and a command of max_command_length + 1 characters is refused with
\* allowed = false and risk Moderate whatever its content.
C15_LengthBoundary ==
    CommandCall =>
        /\ Len(call.command) = validator.value.config.max_command_length =>
              ~LengthRejected
        /\ Len(call.command) = validator.value.config.max_command_length + 1 =>
              /\ LengthRejected
              /\ call.out.value.allowed = FALSE
              /\ call.out.value.risk_level = Moderate

\* A command of exactly max_command_length characters, one of them not ASCII,
\* that the length check refused.
C15_NonAsciiRefused ==
    /\ CommandCall
    /\ Len(call.command) = validator.value.config.max_command_length
    /\ \E i \in 1..Len(call.command) : call.command[i] \in NonAscii
    /\ LengthRejected
    /\ call.out.value.warnings[1].len
          = validator.value.config.max_command_length + 1

\* C19: blocking is monotone in the safety level: Permissive blocks nothing,
\* what Moderate blocks Strict blocks, and the set Moderate blocks, {Critical},
\* is a strict subset of the set Strict blocks, {High, Critical}.
C19_BlockingMonotone ==
    /\ \A r \in RiskLevels :
          /\ ~is_blocked(r, "Permissive")
          /\ is_blocked(r, "Moderate") => is_blocked(r, "Strict")
    /\ {r \in RiskLevels : is_blocked(r, "Moderate")} = {Critical}
    /\ {r \in RiskLevels : is_blocked(r, "Strict")} = {High, Critical}
    /\ \E r \in RiskLevels : is_blocked(r, "Strict") /\ ~is_blocked(r, "Moderate")
    /\ PatternPath =>
          (is_blocked(call.out.value.risk_level,
                      validator.value.config.safety_level)
              => ~call.out.value.allowed)

\* A High-risk command under the Moderate level: not blocked there, though
\* Strict would block it.
C19_Witness ==
    /\ PatternPath
    /\ validator.value.config.safety_level = "Moderate"
    /\ call.out.value.risk_level = High
    /\ ~is_blocked(call.out.value.risk_level, "Moderate")
    /\ is_blocked(call.out.value.risk_level, "Strict")

\* ------------------------------------------------------------------ presets
\* The three presets side by side: validators built from strict(), moderate()
\* and permissive() as they are, called with short commands under every shell
\* and with commands just over each preset's length limit.
Padded(command, n) == command \o [i \in 1..(n - Len(command)) |-> "\n"]

PresetCommands == {
    <<>>,
    RmRoot,
    EchoRmScript,
    \* rm -f *.tmp
    <<"r", "m", " ", "-", "f", " ", "*", ".", "t", "m", "p">>,
    \* scp a b
    <<"s", "c", "p", " ", "a", " ", "b">>,
    \* >/etc/x
    <<">", "/", "e", "t", "c", "/", "x">>,
    \* :(){:|:&};:
    <<":", "(", ")", "{", ":", "|", ":", "&", "}", ";", ":">>,
    \* cat caf<e-acute>
    <<"c", "a", "t", " ", "c", "a", "f", "U+00E9">>}

\* rm -rf / and ls followed by newlines up to one byte over a preset's limit.
LongCommands ==
    {Padded(RmRoot, STRICT_MAX_LENGTH + 1),
     Padded(<<"l", "s">>, STRICT_MAX_LENGTH + 1),
     Padded(RmRoot, MODERATE_MAX_LENGTH + 1),
     Padded(RmRoot, PERMISSIVE_MAX_LENGTH + 1)}

NextPresets ==
    \/ New
    \/ \E command \in PresetCommands, shell \in ShellTypes :
          ValidateCommand(command, shell)
    \/ \E command \in LongCommands : ValidateCommand(command, "Bash")
    \/ DropResult

SpecPresets == Init /\ [][NextPresets]_vars

\* The held call was made on the validator built from the preset cfg.
ByPreset(cfg) == CommandCall /\ validator.value.config = cfg

\* What the validator built from the preset cfg returns for the held call's
\* command and shell.
PresetOutcomes(cfg) ==
    validate_command(new(cfg).value, call.command, call.shell)

\* C16: the presets are ordered by restrictiveness: what strict() allows
\* moderate() allows, and what moderate() allows permissive() allows.
C16_PresetsOrdered ==
    /\ (ByPreset(strict) /\ call.out.value.allowed) =>
          \A o \in PresetOutcomes(moderate) : o.value.allowed
    /\ (ByPreset(moderate) /\ call.out.value.allowed) =>
          \A o \in PresetOutcomes(permissive) : o.value.allowed

\* A command over strict()'s length limit that moderate() allows.
C16_Witness ==
    /\ ByPreset(moderate)
    /\ call.out.value.allowed
    /\ StrLen(call.command) > STRICT_MAX_LENGTH
    /\ \A o \in PresetOutcomes(strict) : ~o.value.allowed
    /\ \A o \in PresetOutcomes(permissive) : o.value.allowed

\* C17 as stated: for every command and shell the risk level reported under
\* strict() is at least the one under moderate(), which is at least the one
\* under permissive().
C17_RiskOrderedByPreset ==
    /\ ByPreset(strict) =>
          \A o \in PresetOutcomes(moderate) :
              call.out.value.risk_level >= o.value.risk_level
    /\ ByPreset(moderate) =>
          \A o \in PresetOutcomes(permissive) :
              call.out.value.risk_level >= o.value.risk_level

\* C17, amended: a command of at most 1000 bytes gets the same risk level
\* under strict() and moderate(), and a command of at most 5000 bytes gets
\* the same risk level under moderate() and permissive(); so within the
\* stricter preset's length limit the risk levels are ordered as stated.
C17_RiskEqualWithinLimits ==
    /\ (ByPreset(strict) /\ StrLen(call.command) <= STRICT_MAX_LENGTH) =>
          \A o \in PresetOutcomes(moderate) :
              call.out.value.risk_level = o.value.risk_level
    /\ (ByPreset(moderate) /\ StrLen(call.command) <= MODERATE_MAX_LENGTH) =>
          \A o \in PresetOutcomes(permissive) :
              call.out.value.risk_level = o.value.risk_level

\* A Critical command within strict()'s limit, Critical under moderate() too.
C17_Witness ==
    /\ ByPreset(strict)
    /\ StrLen(call.command) <= STRICT_MAX_LENGTH
    /\ call.out.value.risk_level = Critical
    /\ \A o \in PresetOutcomes(moderate) : o.value.risk_level = Critical

NumTasks == 2
Tasks == 1..NumTasks

Uninitialised == <<"uninitialised">>

\* Faulty variant of force: the table is published before it is filled.
force_unfilled(table) ==
    IF table = Uninitialised THEN <<>> ELSE table

\* Lazy::force: the closure runs on the first dereference only.
force(table) ==
    IF table = Uninitialised THEN compile_catalogue ELSE table

\* moderate() with the custom pattern and the allowlist entry of the contract
\* tests.
ConcurrentConfig ==
    add_allowlist_pattern(add_custom_pattern(moderate, DeployPattern).config,
                          TmpAllow)

TmpRm ==
    <<"r", "m", " ", "-", "r", "f", " ", "/", "t", "m", "p", "/", "m", "y", "a",
      "p", "p", "_", "1", "2", "3">>

DeployApp ==
    <<"d", "e", "p", "l", "o", "y", " ", "a", "p", "p", " ", "t", "o", " ", "p",
      "r", "o", "d", "u", "c", "t", "i", "o", "n">>

LongLs == Padded(<<"l", "s">>, MODERATE_MAX_LENGTH + 1)

ConcurrentCommands == {RmRoot, TmpRm}

ConcurrentBatches == {<<>>, <<LongLs, DeployApp>>}

ConcurrentCalls ==
    {[op |-> "validate_command", commands |-> <<c>>] : c \in ConcurrentCommands}
    \cup {[op |-> "validate_batch", commands |-> b] : b \in ConcurrentBatches}

Idle == [pc |-> "idle"]

NoMatches ==
    [matched |-> <<>>, highest_risk |-> Safe, warnings |-> <<>>,
     panicked |-> FALSE]

\* What a call returns once its last result is in.
returned(task, results) ==
    IF task.op = "validate_command" THEN results[1]
    ELSE [tag |-> "Ok", value |-> [k \in 1..Len(results) |-> results[k].value]]

\* The outcome o of the command the call is at: validate_batch pushes it and
\* goes on with the next command; after the last one, and on a panic, the call
\* ends.
pushed(task, o) ==
    IF o.tag # "Ok"
    THEN [task EXCEPT !.pc = "done",
                      !.out = IF task.op = "validate_command" THEN o
                              ELSE [tag |-> o.tag]]
    ELSE IF task.next = Len(task.commands)
    THEN [task EXCEPT !.pc = "done",
                      !.out = returned(task, Append(task.results, o))]
    ELSE [task EXCEPT !.pc = "length", !.next = @ + 1,
                      !.results = Append(@, o), !.refs = <<>>,
                      !.acc = NoMatches]

InitConcurrent ==
    /\ COMPILED_PATTERNS = Uninitialised
    /\ config = ConcurrentConfig
    /\ validator = new(config)
    /\ call = [t \in Tasks |-> Idle]
    /\ manager = NoManager

\* A task calls validate_command or validate_batch.
Begin(t, c, shell) ==
    /\ call[t].pc = "idle"
    /\ call' = [call EXCEPT ![t] =
                  [pc |-> IF c.commands = <<>> THEN "done" ELSE "length",
                   op |-> c.op, commands |-> c.commands, shell |-> shell,
                   next |-> 1, results |-> <<>>, refs |-> <<>>,
                   acc |-> NoMatches,
                   out |-> [tag |-> "Ok", value |-> <<>>]]]
    /\ UNCHANGED <<manager, COMPILED_PATTERNS, config, validator>>

\* The command the task's call is at.
current(t) == call[t].commands[call[t].next]

\* Lines 137-154.
CheckLength(t) ==
    /\ call[t].pc = "length"
    /\ call' = [call EXCEPT ![t] =
          IF StrLen(current(t)) > validator.value.config.max_command_length
          THEN pushed(call[t],
                      [tag |-> "Ok",
                       value |-> length_rejection(validator.value, current(t)),
                       evaluated |-> NothingEvaluated])
          ELSE [call[t] EXCEPT !.pc = "allowlist"]]
    /\ UNCHANGED <<manager, COMPILED_PATTERNS, config, validator>>

\* Lines 156-170.
CheckAllowlist(t) ==
    /\ call[t].pc = "allowlist"
    /\ \E hit \in {allowlist_hit(validator.value, current(t))} :
          call' = [call EXCEPT ![t] =
              IF hit # 0
              THEN pushed(call[t],
                          [tag |-> "Ok",
                           value |-> allowlist_result(
                               validator.value.config.allowlist_patterns[hit]),
                           evaluated |-> NothingEvaluated])
              ELSE [call[t] EXCEPT !.pc = "builtin"]]
    /\ UNCHANGED <<manager, COMPILED_PATTERNS, config, validator>>

\* The first task to dereference the static table runs its closure; the
\* others wait until the table is there.
InitialiseTable(t) ==
    /\ call[t].pc = "builtin"
    /\ COMPILED_PATTERNS = Uninitialised
    /\ COMPILED_PATTERNS' = force(COMPILED_PATTERNS)
    /\ UNCHANGED <<manager, config, validator, call>>

\* Line 179.
GetPatterns(t) ==
    /\ call[t].pc = "builtin"
    /\ COMPILED_PATTERNS # Uninitialised
    /\ call' = [call EXCEPT ![t] =
                  [call[t] EXCEPT
                      !.pc = "scan",
                      !.refs = get_compiled_patterns_for_shell(call[t].shell)]]
    /\ UNCHANGED <<manager, COMPILED_PATTERNS, config, validator>>

\* Lines 180-198: the loop over the builtin rows, then the one over the
\* validator's own.
ScanPatterns(t) ==
    /\ call[t].pc = "scan"
    /\ call' = [call EXCEPT ![t] =
                  [call[t] EXCEPT
                      !.pc = "finish",
                      !.acc = check_patterns(current(t),
                                  pattern_rows(validator.value, call[t].refs),
                                  1, NoMatches)]]
    /\ UNCHANGED <<manager, COMPILED_PATTERNS, config, validator>>

\* Lines 200-268.
Finish(t) ==
    /\ call[t].pc = "finish"
    /\ \E o \in pattern_outcomes(validator.value, call[t].acc,
              [builtin |-> call[t].refs,
               custom |-> [k \in 1..Len(validator.value.compiled_patterns) |-> k]]) :
          call' = [call EXCEPT ![t] = pushed(call[t], o)]
    /\ UNCHANGED <<manager, COMPILED_PATTERNS, config, validator>>

\* The task takes the result of its call.
TakeResult(t) ==
    /\ call[t].pc = "done"
    /\ call' = [call EXCEPT ![t] = Idle]
    /\ UNCHANGED <<manager, COMPILED_PATTERNS, config, validator>>

NextConcurrent ==
    \/ \E t \in Tasks, c \in ConcurrentCalls : Begin(t, c, "Bash")
    \/ \E t \in Tasks : CheckLength(t)
    \/ \E t \in Tasks : CheckAllowlist(t)
    \/ \E t \in Tasks : InitialiseTable(t)
    \/ \E t \in Tasks : GetPatterns(t)
    \/ \E t \in Tasks : ScanPatterns(t)
    \/ \E t \in Tasks : Finish(t)
    \/ \E t \in Tasks : TakeResult(t)

SpecConcurrent == InitConcurrent /\ [][NextConcurrent]_vars

\* What the task's call can return when no other call runs.
Alone(task) ==
    IF task.op = "validate_command"
    THEN validate_command(validator.value, task.commands[1], task.shell)
    ELSE validate_batch(validator.value, task.commands, task.shell)

\* The two returned values differ in nothing, or in the explanations only
\* (validate_batch: of the commands' results).
SameReturn(task, a, b) ==
    /\ a.tag = b.tag
    /\ a.tag = "Ok" =>
          IF task.op = "validate_command"
          THEN SameButExplanation(a.value, b.value)
          ELSE /\ Len(a.value) = Len(b.value)
               /\ \A k \in 1..Len(a.value) :
                     SameButExplanation(a.value[k], b.value[k])

NoLiveMatch ==
    /\ \A k \in 1..Len(call.out.evaluated.builtin) :
          ~LiveOccurrence(COMPILED_PATTERNS[call.out.evaluated.builtin[k]].regex,
                          call.command)
    /\ \A k \in 1..Len(call.out.evaluated.custom) :
          ~LiveOccurrence(
              validator.value.compiled_patterns[call.out.evaluated.custom[k]].regex,
              call.command)

\* C21: confidence_score is 0.95 or 1.0, hence within [0.0, 1.0]: 0.95
\* exactly when the danger patterns were evaluated and none had a live match;
\* 1.0 when one matched, on the allowlist short-circuit and on the length
\* rejection.
C21_ConfidenceValues ==
    (CommandCall /\ call.out.tag = "Ok") =>
        /\ call.out.value.confidence_score
              \in {CONFIDENCE_NO_MATCH, CONFIDENCE_CERTAIN}
        /\ CONFIDENCE_NO_MATCH = 95 /\ CONFIDENCE_CERTAIN = 100
        /\ ~PatternPath => call.out.value.confidence_score = CONFIDENCE_CERTAIN
        /\ PatternPath =>
              (call.out.value.confidence_score = CONFIDENCE_NO_MATCH
                  <=> NoLiveMatch)

\* A command whose only occurrence of a danger pattern is inside quotes: the
\* patterns were evaluated, none is live, and the confidence is 0.95.
C21_Witness ==
    /\ PatternPath
    /\ call.command = EchoRmScript
    /\ call.out.value.matched_patterns = <<>>
    /\ call.out.value.confidence_score = CONFIDENCE_NO_MATCH

\* ------------------------------------------------------------------ custom
\* moderate() plus one custom pattern of risk High: the deploy pattern of the
\* contract test, unscoped or scoped to one shell.
DeployZshPattern == [DeployPattern EXCEPT !.shell_specific = Some("Zsh")]

CustomCommands == {
    DeployApp,
    \* scp deploy production
    <<"s", "c", "p", " ", "d", "e", "p", "l", "o", "y", " ", "p", "r", "o", "d",
      "u", "c", "t", "i", "o", "n">>,
    \* deploy production;rm -rf /
    <<"d", "e", "p", "l", "o", "y", " ", "p", "r", "o", "d", "u", "c", "t", "i",
      "o", "n", ";">> \o RmRoot,
    \* echo 'deploy production'
    <<"e", "c", "h", "o", " ", "'", "d", "e", "p", "l", "o", "y", " ", "p", "r",
      "o", "d", "u", "c", "t", "i", "o", "n", "'">>,
    \* echo 'x';deploy production
    <<"e", "c", "h", "o", " ", "'", "x", "'", ";", "d", "e", "p", "l", "o", "y",
      " ", "p", "r", "o", "d", "u", "c", "t", "i", "o", "n">>,
    Padded(DeployApp, MODERATE_MAX_LENGTH),
    Padded(DeployApp, MODERATE_MAX_LENGTH + 1)}

InitCustom ==
    /\ COMPILED_PATTERNS = compile_catalogue
    /\ config \in {add_custom_pattern(moderate, p).config :
                        p \in {DeployPattern, DeployZshPattern}}
    /\ validator = Unbuilt
    /\ call = NoCall
    /\ manager = NoManager

NextCustom ==
    \/ New
    \/ \E command \in CustomCommands, shell \in ShellTypes :
          ValidateCommand(command, shell)
    \/ DropResult

SpecCustom == InitCustom /\ [][NextCustom]_vars

\* The validator's one custom pattern has a live occurrence in the command
\* of the held call, and no Critical pattern has a live match.
CustomHighGoverns ==
    /\ CommandCall
    /\ call.out.tag = "Ok"
    /\ Len(validator.value.patterns) = 1
    /\ validator.value.patterns[1].risk_level = High
    /\ LiveOccurrence(RegexNew(validator.value.patterns[1].pattern), call.command)
    /\ ~CriticalBuiltinLive

CustomHighReported ==
    /\ call.out.value.risk_level = High
    /\ ~call.out.value.allowed
    /\ validator.value.patterns[1].description
          \in Range(call.out.value.matched_patterns)

\* C22 as stated: with moderate() plus one custom pattern of risk High, every
\* command in which the custom pattern has a live match and no Critical
\* pattern has one gets risk High, allowed = false, and the custom pattern's
\* description among matched_patterns.
C22_CustomHighAnyLength ==
    CustomHighGoverns => CustomHighReported

\* C22, amended: the same for every such command of at most
\* max_command_length (5000) bytes.
C22_CustomHighWithinLength ==
    (CustomHighGoverns /\ WithinLength) => CustomHighReported

\* Scenario C: deploy app to production under Bash.
C22_Witness ==
    /\ CustomHighGoverns
    /\ WithinLength
    /\ call.command = DeployApp
    /\ call.shell = "Bash"
    /\ CustomHighReported

\* ------------------------------------------------------------------ blanks
\* The presets called with the empty command and with commands of whitespace
\* only: every one of up to MaxBlank characters, and runs of spaces up to and
\* just over the presets' length limits.
MaxBlank == 2

BlanksUpTo[n \in 0..MaxBlank] ==
    IF n = 0 THEN {<<>>}
    ELSE BlanksUpTo[n - 1]
         \cup {Append(b, c) : b \in BlanksUpTo[n - 1], c \in Space}

Spaces(n) == [i \in 1..n |-> " "]

LongBlanks ==
    {Spaces(STRICT_MAX_LENGTH), Spaces(STRICT_MAX_LENGTH + 1),
     Spaces(MODERATE_MAX_LENGTH + 1), Spaces(PERMISSIVE_MAX_LENGTH + 1)}

NextBlank ==
    \/ New
    \/ \E command \in BlanksUpTo[MaxBlank], shell \in ShellTypes :
          ValidateCommand(command, shell)
    \/ \E command \in LongBlanks, shell \in FewShells :
          ValidateCommand(command, shell)
    \/ DropResult

SpecBlank == Init /\ [][NextBlank]_vars

\* The held call was made on a preset's validator with a command of
\* whitespace only (the empty command included).
BlankCall ==
    /\ CommandCall
    /\ validator.value.config \in {strict, moderate, permissive}
    /\ \A i \in 1..Len(call.command) : call.command[i] \in Space

AllowedSafe ==
    /\ call.out.tag = "Ok"
    /\ call.out.value.allowed
    /\ call.out.value.risk_level = Safe

\* C23 as stated: for the presets and every shell, the empty command and any
\* command of whitespace only is allowed at risk Safe.
C23_BlankAnyLength ==
    BlankCall => AllowedSafe

\* C23, amended: the same for the empty command and any command of
\* whitespace only of at most max_command_length bytes.
C23_BlankWithinLength ==
    (BlankCall /\ WithinLength) => AllowedSafe

\* The empty command under strict(), and a tab and a carriage return under
\* another shell.
C23_Witness ==
    /\ BlankCall
    /\ WithinLength
    /\ call.command = <<"\t", "\r">>
    /\ call.shell = "PowerShell"
    /\ AllowedSafe
    /\ \A o \in validate_command(new(strict).value, <<>>, "Bash") :
          o.tag = "Ok" /\ o.value.allowed /\ o.value.risk_level = Safe

\* ------------------------------------------------------------------ building
\* The caller builds a configuration and a validator from it; no call is made.
NextBuild ==
    \/ \E n \in LengthLimits : SetMaxCommandLength(n)
    \/ \E p \in {DeployPattern, ZshPushPattern, BadPattern} : AddCustomPattern(p)
    \/ \E p \in {TmpAllow, BadRegex} : AddAllowlistPattern(p)
    \/ New

SpecBuild == Init /\ [][NextBuild]_vars

\* add_custom_pattern on cfg with p: p is appended and nothing else changes;
\* Err(PatternError) exactly when p does not compile; after an Err, new
\* rejects the configuration with PatternError, also when a further pattern q
\* was added, unless max_command_length is 0.
AddsAndReports(cfg, p, q) ==
    /\ add_custom_pattern(cfg, p).config
          = [cfg EXCEPT !.custom_patterns = Append(cfg.custom_patterns, p)]
    /\ add_custom_pattern(cfg, p).result.tag = "Err" <=> ~RegexNewOk(p.pattern)
    /\ add_custom_pattern(cfg, p).result.tag = "Err" =>
          /\ add_custom_pattern(cfg, p).result.error = "PatternError"
          /\ cfg.max_command_length > 0 =>
                /\ new(add_custom_pattern(cfg, p).config).tag = "Err"
                /\ new(add_custom_pattern(cfg, p).config).error = "PatternError"
                /\ new(add_custom_pattern(add_custom_pattern(cfg, p).config,
                                          q).config).tag = "Err"
                /\ new(add_custom_pattern(add_custom_pattern(cfg, p).config,
                                          q).config).error = "PatternError"

\* C25: add_custom_pattern always appends the pattern, whether it returns Ok
\* or Err; it returns Err(PatternError) exactly when the pattern's regex does
\* not compile; and new rejects with PatternError a configuration on which it
\* returned Err, provided max_command_length > 0.
C25_AddCustomPattern ==
    /\ [](\A p, q \in {DeployPattern, ZshPushPattern, BadPattern} :
            AddsAndReports(config, p, q))
    /\ [][config'.custom_patterns # config.custom_patterns =>
            \E p \in {DeployPattern, ZshPushPattern, BadPattern} :
                config' = add_custom_pattern(config, p).config]_vars
    /\ [](validator # Unbuilt /\ SomeCustomFails /\ config.max_command_length > 0
            => validator.tag = "Err" /\ validator.error = "PatternError")

\* A pattern that does not compile was added after one that does, and new
\* has rejected the configuration.
C25_Witness ==
    /\ config.custom_patterns = <<DeployPattern, BadPattern>>
    /\ add_custom_pattern([config EXCEPT !.custom_patterns = <<DeployPattern>>],
                          BadPattern).result.tag = "Err"
    /\ config.max_command_length > 0
    /\ validator.tag = "Err"
    /\ validator.error = "PatternError"

\* ------------------------------------------------------------------ compiling
\* The sources Regex::new is called on by one validate_command call (lines
\* 157-158): the allowlist entries up to the first that compiles and matches,
\* all of them when none does, none when the command is too long.
validate_command_compilations(v, command) ==
    IF StrLen(command) > v.config.max_command_length THEN <<>>
    ELSE IF allowlist_hit(v, command) = 0 THEN v.config.allowlist_patterns
    ELSE SubSeq(v.config.allowlist_patterns, 1, allowlist_hit(v, command))

\* C26: regexes are compiled at construction only: no validate_command or
\* validate_batch call compiles any regex.
C26_CompiledAtConstructionOnly ==
    /\ CommandCall =>
          validate_command_compilations(validator.value, call.command) = <<>>
    /\ BatchCall =>
          \A k \in 1..Len(call.commands) :
              validate_command_compilations(validator.value, call.commands[k])
                  = <<>>

\* A call on a validator without custom patterns compiles the allowlist
\* entries, the uncompilable one included, and goes on to the danger patterns.
C26_CallCompilesAllowlist ==
    /\ PatternPath
    /\ validator.value.patterns = <<>>
    /\ validate_command_compilations(validator.value, call.command)
          = <<BadRegex, TmpAllow>>

\* ------------------------------------------------------------------ allowed
\* C27: at every risk level and safety level is_blocked implies
\* requires_confirmation, so on the pattern path allowed is the negation of
\* requires_confirmation alone; and allowed = false is returned both for a
\* blocked risk and for one that only requires confirmation, with no other
\* field of the result telling the two apart.
C27_AllowedIsNotConfirmation ==
    /\ \A risk \in RiskLevels, level \in SafetyLevels :
          /\ is_blocked(risk, level) => requires_confirmation(risk, level)
          /\ policy_allowed(risk, level) <=> ~requires_confirmation(risk, level)
    /\ \A level \in {"Strict", "Moderate"} :
          \E blocked, confirmed \in RiskLevels :
              /\ is_blocked(blocked, level)
              /\ ~is_blocked(confirmed, level)
              /\ ~policy_allowed(blocked, level)
              /\ ~policy_allowed(confirmed, level)
    /\ PatternPath =>
          /\ call.out.value.allowed <=>
                ~requires_confirmation(call.out.value.risk_level,
                                       validator.value.config.safety_level)
          /\ DOMAIN call.out.value =
                {"allowed", "risk_level", "explanation", "warnings",
                 "matched_patterns", "confidence_score"}

\* strict() refuses a command of risk Moderate, which it does not block.
C27_Witness ==
    /\ PatternPath
    /\ validator.value.config.safety_level = "Strict"
    /\ call.out.value.risk_level = Moderate
    /\ ~call.out.value.allowed
    /\ ~is_blocked(Moderate, "Strict")
    /\ \E o \in validate_command(validator.value, RmRoot, "Bash") :
          ~o.value.allowed /\ is_blocked(o.value.risk_level, "Strict")

\* ------------------------------------------------------------------ allowlist
\* Configurations with an allowlist holding an entry that is not a regex,
\* alone or before one that is, and calls on the validators built from them.
AllowCommands == {TmpRm, RmRoot, DeployApp, LongLs}

NextAllow ==
    \/ \E p \in {TmpAllow, BadRegex} : AddAllowlistPattern(p)
    \/ AddCustomPattern(DeployPattern)
    \/ New
    \/ \E command \in AllowCommands, shell \in FewShells :
          ValidateCommand(command, shell)
    \/ DropResult

SpecAllow == Init /\ [][NextAllow]_vars

\* cfg without the allowlist entries that do not compile.
without_invalid(cfg) ==
    [cfg EXCEPT !.allowlist_patterns =
        SelectSeq(cfg.allowlist_patterns, RegexNewOk)]

HasInvalidAllow(cfg) ==
    \E i \in 1..Len(cfg.allowlist_patterns) :
        ~RegexNewOk(cfg.allowlist_patterns[i])

\* C28: an allowlist entry that is not a valid regex is never reported: new
\* succeeds on a configuration holding it, and every validate_command call
\* returns Ok with the result it returns when the entry is absent, the
\* remaining allowlist entries and the danger patterns being gone through
\* as usual.
C28_InvalidAllowlistEntrySkipped ==
    /\ (validator # Unbuilt /\ HasInvalidAllow(config)) =>
          /\ validator = new(config)
          /\ validator.tag = new(without_invalid(config)).tag
          /\ validator.tag = "Ok"
    /\ (CommandCall /\ HasInvalidAllow(validator.value.config)) =>
          /\ call.out.tag = "Ok"
          /\ \E same \in {validate_command(
                               new(without_invalid(validator.value.config)).value,
                               call.command, call.shell)} :
                /\ call.out \in same
                /\ validate_command(validator.value, call.command, call.shell)
                      = same

\* The entry after the one that does not compile allowlists the command.
C28_Witness ==
    /\ CommandCall
    /\ validator.value.config.allowlist_patterns = <<BadRegex, TmpAllow>>
    /\ call.command = TmpRm
    /\ call.out.value.allowed
    /\ call.out.value.matched_patterns = <<TmpAllow>>
    /\ \E o \in validate_command(validator.value, RmRoot, "Bash") :
          o.value.risk_level = Critical

\* ------------------------------------------------------------------ cli
\* CliApp: new builds the validator from SafetyConfig::default(); run_with_args
\* parses the arguments, has the backend generate a command, validates it and
\* decides whether it is executed.
ShellType_from_str(s) ==
    CASE to_lowercase(s) = <<"b", "a", "s", "h">> -> "Bash"
      [] to_lowercase(s) = <<"z", "s", "h">> -> "Zsh"
      [] to_lowercase(s) = <<"f", "i", "s", "h">> -> "Fish"
      [] to_lowercase(s) = <<"s", "h">> -> "Sh"
      [] to_lowercase(s) \in {<<"p", "o", "w", "e", "r", "s", "h", "e", "l", "l">>,
                              <<"p", "w", "s", "h">>} -> "PowerShell"
      [] to_lowercase(s) = <<"c", "m", "d">> -> "Cmd"
      [] OTHER -> "Unknown"

SafetyLevel_from_str(s) ==
    CASE to_lowercase(s) = <<"s", "t", "r", "i", "c", "t">> -> [tag |-> "Ok", value |-> "Strict"]
      [] to_lowercase(s) = <<"m", "o", "d", "e", "r", "a", "t", "e">> ->
            [tag |-> "Ok", value |-> "Moderate"]
      [] to_lowercase(s) = <<"p", "e", "r", "m", "i", "s", "s", "i", "v", "e">> ->
            [tag |-> "Ok", value |-> "Permissive"]
      [] OTHER -> [tag |-> "Err"]

CliConfig_default == [default_shell |-> "Bash", safety_level |-> "Moderate"]

\* MockCommandGenerator::generate_command.
generate_command(input, shell) ==
    IF contains(input, <<"l", "i", "s", "t">>) /\ contains(input, <<"f", "i", "l", "e", "s">>)
    THEN CASE shell = "PowerShell" -> <<"G", "e", "t", "-", "C", "h", "i", "l", "d", "I", "t", "e", "m">>
           [] shell = "Cmd" -> <<"d", "i", "r">>
           [] OTHER -> <<"l", "s", " ", "-", "l", "a">>
    ELSE IF contains(input, <<"d", "i", "r", "e", "c", "t", "o", "r", "y">>)
            \/ contains(input, <<"p", "w", "d">>)
    THEN <<"p", "w", "d">>
    ELSE IF contains(input, <<"d", "e", "l", "e", "t", "e">>)
            /\ contains(input, <<"s", "y", "s", "t", "e", "m">>)
    THEN <<"r", "m", " ", "-", "r", "f", " ", "/">>
    ELSE IF contains(input, <<"d", "e", "l", "e", "t", "e">>)
            \/ contains(input, <<"r", "e", "m", "o", "v", "e">>)
    THEN <<"r", "m", " ", "-", "r", "f", " ", "/", "t", "m", "p", "/", "*">>
    ELSE <<"e", "c", "h", "o", " ", "'">> \o input \o <<"'">>

\* Lines 155-169: the shell the call uses, and whether the invalid-shell
\* warning is pushed.
parse_shell(shell_arg) ==
    IF ~shell_arg.some
    THEN [shell |-> CliConfig_default.default_shell, warned |-> FALSE]
    ELSE IF ShellType_from_str(shell_arg.v) = "Unknown"
    THEN [shell |-> CliConfig_default.default_shell, warned |-> TRUE]
    ELSE [shell |-> ShellType_from_str(shell_arg.v), warned |-> FALSE]

\* Lines 171-176.
parse_safety(safety_arg) ==
    IF safety_arg.some /\ SafetyLevel_from_str(safety_arg.v).tag = "Ok"
    THEN SafetyLevel_from_str(safety_arg.v).value
    ELSE CliConfig_default.safety_level

\* Faulty variant of should_execute: a block can be waived like a
\* confirmation.
should_execute_unless_unconfirmed(blocked_reason, requires_confirm) ==
    ~requires_confirm

\* Line 234.
should_execute(blocked_reason, requires_confirm) ==
    blocked_reason = None /\ ~requires_confirm

\* Lines 223-231.
blocked_reason_of(validation, safety_level) ==
    IF is_blocked(validation.risk_level, safety_level)
    THEN Some([risk_level |-> validation.risk_level,
               warnings |-> validation.warnings])
    ELSE None

\* Lines 219-292, from the generated command and its validation.
cli_result(args, parsed, safety_level, command, validation) ==
    [generated_command |-> command,
     executed |->
        should_execute(blocked_reason_of(validation, safety_level),
            requires_confirmation(validation.risk_level, safety_level)
                /\ ~args.confirm),
     blocked_reason |-> blocked_reason_of(validation, safety_level),
     requires_confirmation |->
        requires_confirmation(validation.risk_level, safety_level)
            /\ ~args.confirm,
     shell_used |-> parsed.shell,
     warnings |-> (IF parsed.warned
                   THEN <<[kind |-> "InvalidShell", shell |-> args.shell.v]>>
                   ELSE <<>>) \o validation.warnings,
     detected_context |-> args.prompt.v]

\* run_with_args on the app's validator v: one outcome per outcome of the
\* validation; validation is bookkeeping, the ValidationResult the call got.
validated(args, parsed, safety_level, command, outcomes) ==
    {IF o.tag # "Ok" THEN [tag |-> o.tag]
     ELSE [tag |-> "Ok",
           value |-> cli_result(args, parsed, safety_level, command, o.value),
           safety_level |-> safety_level,
           validation |-> o.value] : o \in outcomes}

generated(v, args, parsed, command) ==
    validated(args, parsed, parse_safety(args.safety), command,
              validate_command(v, command, parsed.shell))

run_with_args(v, args) ==
    IF ~args.prompt.some
    THEN {[tag |-> "Err", error |-> "InvalidArgument"]}
    ELSE generated(v, args, parse_shell(args.shell),
                   generate_command(args.prompt.v, parse_shell(args.shell).shell))

\* The arguments the app is run with.
CliPrompts ==
    {None,
     Some(<<"l", "i", "s", "t", " ", "f", "i", "l", "e", "s">>),
     Some(<<"p", "w", "d">>),
     Some(<<"d", "e", "l", "e", "t", "e", " ", "s", "y", "s", "t", "e", "m",
            " ", "f", "i", "l", "e", "s">>),
     Some(<<"r", "e", "m", "o", "v", "e", " ", "l", "o", "g", "s">>),
     Some(<<"h", "i">>),
     Some(<<"x", "'", ";", "r", "m", " ", "-", "r", "f", " ", "/", ";", "e",
            "c", "h", "o", " ", "'", "x">>),
     Some([i \in 1..DEFAULT_MAX_LENGTH |-> "x"])}

CliShells ==
    {None,
     Some(<<"b", "a", "s", "h">>),
     Some(<<"P", "o", "w", "e", "r", "S", "h", "e", "l", "l">>),
     Some(<<"c", "m", "d">>),
     Some(<<"t", "c", "s", "h">>)}

CliSafeties ==
    {None,
     Some(<<"s", "t", "r", "i", "c", "t">>),
     Some(<<"M", "o", "d", "e", "r", "a", "t", "e">>),
     Some(<<"p", "e", "r", "m", "i", "s", "s", "i", "v", "e">>),
     Some(<<"p", "a", "r", "a", "n", "o", "i", "d">>)}

\* CliApp::new.
InitCli ==
    /\ COMPILED_PATTERNS = compile_catalogue
    /\ config = default
    /\ validator = new(config)
    /\ call = NoCall
    /\ manager = NoManager

RunWithArgs(args) ==
    /\ validator.tag = "Ok"
    /\ call = NoCall
    /\ \E out \in run_with_args(validator.value, args) :
          call' = [op |-> "run_with_args", args |-> args, out |-> out]
    /\ UNCHANGED <<manager, COMPILED_PATTERNS, config, validator>>

NextCli ==
    \/ \E prompt \in CliPrompts, shell \in CliShells, safety \in CliSafeties,
          confirm \in BOOLEAN :
          RunWithArgs([prompt |-> prompt, shell |-> shell, safety |-> safety,
                       confirm |-> confirm])
    \/ DropResult

SpecCli == InitCli /\ [][NextCli]_vars

\* The caller holds the result of a run_with_args call that returned Ok.
CliCall == call.op = "run_with_args" /\ call.out.tag = "Ok"

\* The generated command's risk is blocked at the level the call asked for.
CliBlocked ==
    is_blocked(call.out.validation.risk_level, parse_safety(call.args.safety))

\* C24: a generated command whose risk level is blocked at the requested
\* safety level is never marked executed: blocked_reason is set and executed
\* is false with and without the confirm flag; the flag waives the
\* confirmation requirement only.
C24_BlockedNeverExecuted ==
    CliCall =>
        /\ call.out.safety_level = parse_safety(call.args.safety)
        /\ CliBlocked <=> call.out.value.blocked_reason # None
        /\ CliBlocked => ~call.out.value.executed
        /\ CliBlocked =>
              \A o \in run_with_args(validator.value,
                        [call.args EXCEPT !.confirm = ~call.args.confirm]) :
                  /\ o.tag = "Ok"
                  /\ o.value.blocked_reason # None
                  /\ ~o.value.executed
        /\ call.args.confirm =>
              /\ ~call.out.value.requires_confirmation
              /\ call.out.value.executed <=> ~CliBlocked
        /\ ~call.args.confirm =>
              /\ call.out.value.requires_confirmation <=>
                    requires_confirmation(call.out.validation.risk_level,
                                          call.out.safety_level)
              /\ call.out.value.executed <=>
                    ~call.out.value.requires_confirmation

\* rm -rf / at the default level with the confirm flag: blocked, not executed.
C24_Witness ==
    /\ CliCall
    /\ call.args.confirm
    /\ call.args.safety = None
    /\ call.out.value.generated_command = RmRoot
    /\ CliBlocked
    /\ call.out.value.blocked_reason # None
    /\ ~call.out.value.executed
    /\ ~call.out.value.requires_confirmation

\* C29: whenever run_with_args marks a command executed with confirm = false
\* at the default Moderate level, the validator's result for the command had
\* allowed = true; a command rejected for its length is not executed.
C29_ExecutedOnlyIfAllowed ==
    (/\ CliCall
     /\ call.out.value.executed
     /\ ~call.args.confirm
     /\ call.out.safety_level = "Moderate") =>
        call.out.validation.allowed

\* A generated command over the validator's length limit is marked executed
\* although the validator returned allowed = false for it.
C29_RejectedCommandExecuted ==
    /\ CliCall
    /\ call.out.value.executed
    /\ ~call.args.confirm
    /\ call.args.safety = None
    /\ call.out.safety_level = "Moderate"
    /\ StrLen(call.out.value.generated_command)
          > validator.value.config.max_command_length
    /\ call.out.validation.explanation.kind = "TooLong"
    /\ ~call.out.validation.allowed

\* ------------------------------------------------------------------ manifest
\* The cache manifest (src/cache/manifest.rs, src/models/mod.rs).  Sizes are
\* counted in MiB: 10 GiB of bytes does not fit the 32-bit integers of the
\* model, and no size below comes anywhere near the u64 range of size_bytes,
\* so the += of add_model never overflows here.  A CachedModel is kept as its size_bytes
\* and last_accessed; models is the HashMap, a function on the ids it holds.
MiB_PER_GiB == 1024

\* ManifestManager::new, manifest.rs 24-30: the manifest of a cache directory
\* that holds no manifest.json yet.
HashMap_new == [id \in {} |-> None]

CacheManifest_empty ==
    [models |-> HashMap_new,
     total_size_bytes |-> 0,
     max_cache_size_bytes |-> 10 * MiB_PER_GiB]

\* ManifestManager::save, manifest.rs 56-66: the manifest is written to the
\* manifest path, or the write fails and the file is left as it was; the
\* manifest in memory keeps what the caller did to it either way.
save(m) ==
    {[tag |-> "Ok", manifest |-> m.manifest, saved |-> m.manifest],
     [tag |-> "Err", manifest |-> m.manifest, saved |-> m.saved]}

\* ManifestManager::new, manifest.rs 17-45, in a directory without a manifest
\* file: the empty manifest, saved.
ManifestManager_new ==
    {r \in save([manifest |-> CacheManifest_empty, saved |-> None]) :
        r.tag = "Ok"}

\* HashMap::insert and HashMap::remove.
insert(models, model_id, cached_model) ==
    [id \in DOMAIN models \cup {model_id} |->
        IF id = model_id THEN cached_model ELSE models[id]]

remove(models, model_id) ==
    [id \in DOMAIN models \ {model_id} |-> models[id]]

saturating_sub(a, b) == IF a >= b THEN a - b ELSE 0

\* CacheManifest::remove_model, models/mod.rs 558-566.
CacheManifest_remove_model(manifest, model_id) ==
    IF model_id \in DOMAIN manifest.models
    THEN [manifest EXCEPT
            !.models = remove(manifest.models, model_id),
            !.total_size_bytes =
                saturating_sub(manifest.total_size_bytes,
                               manifest.models[model_id].size_bytes)]
    ELSE manifest

\* The ids min_by_key can return, models/mod.rs 579-583: a model whose
\* last_accessed is least; which one of several is the HashMap's order.
lru(models) ==
    {id \in DOMAIN models :
        \A other \in DOMAIN models :
            models[id].last_accessed <= models[other].last_accessed}

\* CacheManifest::cleanup_lru, models/mod.rs 574-593: the manifests the loop
\* can end with.
RECURSIVE cleanup_lru(_)
cleanup_lru(manifest) ==
    IF /\ manifest.total_size_bytes > manifest.max_cache_size_bytes
       /\ DOMAIN manifest.models # {}
    THEN UNION {cleanup_lru(CacheManifest_remove_model(manifest, id)) :
                    id \in lru(manifest.models)}
    ELSE {manifest}

RECURSIVE sum_size_bytes(_)
sum_size_bytes(models) ==
    IF DOMAIN models = {} THEN 0
    ELSE LET id == CHOOSE id \in DOMAIN models : TRUE
         IN  models[id].size_bytes + sum_size_bytes(remove(models, id))

\* ManifestManager::recalculate_total_size, manifest.rs 143-150.
recalculate_total_size(manifest) ==
    [manifest EXCEPT !.total_size_bytes = sum_size_bytes(manifest.models)]

\* ManifestManager::add_model, manifest.rs 78-98.
add_model(m, model_id, cached_model) ==
    LET added == [m.manifest EXCEPT
                    !.total_size_bytes = @ + cached_model.size_bytes,
                    !.models = insert(@, model_id, cached_model)]
        kept == IF added.total_size_bytes > added.max_cache_size_bytes
                THEN {recalculate_total_size(c) : c \in cleanup_lru(added)}
                ELSE {added}
    IN  UNION {save([m EXCEPT !.manifest = k]) : k \in kept}

\* ManifestManager::remove_model, manifest.rs 101-111.
remove_model(m, model_id) ==
    IF model_id \in DOMAIN m.manifest.models
    THEN save([m EXCEPT
                 !.manifest = CacheManifest_remove_model(m.manifest, model_id)])
    ELSE {[tag |-> "Ok", manifest |-> m.manifest, saved |-> m.saved]}

\* ManifestManager::clear, manifest.rs 114-120.
clear(m) ==
    save([m EXCEPT !.manifest.models = HashMap_new,
                   !.manifest.total_size_bytes = 0])

\* ManifestManager::total_size, manifest.rs 138-140.
total_size(m) == m.manifest.total_size_bytes

\* The callers' inputs: two model ids, a model that fits the cache twice over,
\* one that fits it once, and the instants at which a model was last used.
MaxTime == 2
ModelIds == {"org/model-a", "org/model-b"}
ModelSizes == {4 * MiB_PER_GiB, 7 * MiB_PER_GiB}
CachedModels ==
    [size_bytes : ModelSizes, last_accessed : 1 .. MaxTime]

InitManifest ==
    /\ COMPILED_PATTERNS = compile_catalogue
    /\ config = default
    /\ validator = Unbuilt
    /\ call = NoCall
    /\ manager \in ManifestManager_new

\* Each call leaves its Result with the caller and the manager as the call
\* changed it, also when the call returned the error of a failed save.
AddModel(model_id, cached_model) ==
    /\ \E r \in add_model(manager, model_id, cached_model) :
          /\ manager' = [manifest |-> r.manifest, saved |-> r.saved, tag |-> "Ok"]
          /\ call' = [op |-> "add_model", model_id |-> model_id,
                      cached_model |-> cached_model,
                      present |-> model_id \in DOMAIN manager.manifest.models,
                      out |-> r.tag]
    /\ UNCHANGED <<COMPILED_PATTERNS, config, validator>>

RemoveModel(model_id) ==
    /\ \E r \in remove_model(manager, model_id) :
          /\ manager' = [manifest |-> r.manifest, saved |-> r.saved, tag |-> "Ok"]
          /\ call' = [op |-> "remove_model", model_id |-> model_id,
                      out |-> r.tag]
    /\ UNCHANGED <<COMPILED_PATTERNS, config, validator>>

Clear ==
    /\ \E r \in clear(manager) :
          /\ manager' = [manifest |-> r.manifest, saved |-> r.saved, tag |-> "Ok"]
          /\ call' = [op |-> "clear", out |-> r.tag]
    /\ UNCHANGED <<COMPILED_PATTERNS, config, validator>>

NextManifest ==
    \/ \E model_id \in ModelIds, cached_model \in CachedModels :
          AddModel(model_id, cached_model)
    \/ \E model_id \in ModelIds : RemoveModel(model_id)
    \/ Clear

SpecManifest == InitManifest /\ [][NextManifest]_vars

\* C30: after any sequence of add_model, remove_model and clear calls on a
\* ManifestManager, add_model with a model_id already present included,
\* total_size() equals the sum of size_bytes over the models in the manifest.
C30_TotalSizeIsSum ==
    total_size(manager) = sum_size_bytes(manager.manifest.models)

\* add_model for a model_id the manifest already holds returned, the cache
\* stayed within its limit, and total_size() counts the replaced model's size
\* on top of the sizes of the models the manifest holds.
C30_ReplacedModelStillCounted ==
    /\ call.op = "add_model"
    /\ call.present
    /\ call.out = "Ok"
    /\ total_size(manager) <= manager.manifest.max_cache_size_bytes
    /\ total_size(manager) > sum_size_bytes(manager.manifest.models)
====
